---- MODULE Spec2Model ----
(***************************************************************************)
(* A model of the uvie incremental Vietnamese input-method engine:         *)
(* UltraFastViEngine (engine.rs), its mode tables and resolvers (modes.rs),*)
(* the buffer facade (buffers.rs) and the vowel/tone table.                *)
(*                                                                         *)
(* Characters are Unicode code points (naturals); the raw and the output   *)
(* buffer are strings, modelled as sequences of code points; as_bytes()    *)
(* is the UTF-8 encoding.  Array indices keep the source's 0-based values. *)
(***************************************************************************)
EXTENDS Integers, Sequences, FiniteSets, TLC

(***************************************************************************)
(* Character literals.  One-letter names are the ASCII characters; the     *)
(* two-letter names are the modified letters the resolvers produce, named  *)
(* by their Telex digraph: aa = a-circumflex (U+00E2), aw = a-breve        *)
(* (U+0103), ee = e-circumflex (U+00EA), oo = o-circumflex (U+00F4),       *)
(* ow = o-horn (U+01A1), uw = u-horn (U+01B0), dd = d-stroke (U+0111).     *)
(***************************************************************************)
Ch ==
    ("a" :> 97) @@ ("b" :> 98) @@ ("c" :> 99) @@ ("d" :> 100) @@ ("e" :> 101) @@ ("f" :> 102) @@
    ("g" :> 103) @@ ("h" :> 104) @@ ("i" :> 105) @@ ("j" :> 106) @@ ("k" :> 107) @@ ("l" :> 108) @@
    ("m" :> 109) @@ ("n" :> 110) @@ ("o" :> 111) @@ ("p" :> 112) @@ ("q" :> 113) @@ ("r" :> 114) @@
    ("s" :> 115) @@ ("t" :> 116) @@ ("u" :> 117) @@ ("v" :> 118) @@ ("w" :> 119) @@ ("x" :> 120) @@
    ("y" :> 121) @@ ("z" :> 122) @@ ("0" :> 48) @@ ("1" :> 49) @@ ("2" :> 50) @@ ("3" :> 51) @@
    ("4" :> 52) @@ ("5" :> 53) @@ ("6" :> 54) @@ ("7" :> 55) @@ ("8" :> 56) @@ ("9" :> 57) @@
    ("A" :> 65) @@ ("D" :> 68) @@ ("G" :> 71) @@ ("I" :> 73) @@ ("Q" :> 81) @@ ("U" :> 85) @@ (" " :> 32) @@ ("aa" :> 226) @@ ("aw" :> 259) @@ ("ee" :> 234) @@
    ("oo" :> 244) @@ ("ow" :> 417) @@ ("uw" :> 432) @@ ("dd" :> 273)

\* A string literal: the sequence of the code points of the named characters.
Str(names) == [i \in 1..Len(names) |-> Ch[names[i]]]

(***************************************************************************)
(* Program constants.                                                      *)
(***************************************************************************)
IS_VOWEL == 1
IS_MODIFIER == 2
IS_TONE_KEY == 4
\* heapless::String<32> / the 32-entry scratch arrays and the .min(32) slice
RawCapacity == 32
\* heapless::String<128>
OutCapacity == 128
\* toggled, buf, out, char_buf: [_; 32]
ScratchLen == 32
\* vowel_mask is a u16: only positions below 16 are recorded
MaskBits == 16
\* last_pos: 0xFF = none
NoPos == 255
\* W_LITERAL sentinel byte
W_LITERAL == 1

(***************************************************************************)
(* char and String primitives of the standard library, as the code uses    *)
(* them.                                                                   *)
(***************************************************************************)
\* char::is_whitespace (the Unicode White_Space property)
is_whitespace(c) ==
    \/ c \in 9..13
    \/ c \in {32, 133, 160, 5760, 8232, 8233, 8239, 8287, 12288}
    \/ c \in 8192..8202

\* Mutant: the key is stored as typed
to_ascii_lowercase_AsTyped(c) == c

\* char::to_ascii_lowercase: only A..Z change
to_ascii_lowercase(c) == IF c \in 65..90 THEN c + 32 ELSE c

\* char::is_ascii
is_ascii(c) == c < 128

\* char::len_utf8
len_utf8(c) == IF c < 128 THEN 1 ELSE IF c < 2048 THEN 2 ELSE IF c < 65536 THEN 3 ELSE 4

\* the UTF-8 encoding of one char
encode_utf8(c) ==
    IF c < 128 THEN <<c>>
    ELSE IF c < 2048 THEN <<192 + (c \div 64), 128 + (c % 64)>>
    ELSE IF c < 65536 THEN <<224 + (c \div 4096), 128 + ((c \div 64) % 64), 128 + (c % 64)>>
    ELSE <<240 + (c \div 262144), 128 + ((c \div 4096) % 64),
           128 + ((c \div 64) % 64), 128 + (c % 64)>>

RECURSIVE as_bytes(_)
\* String::as_bytes: the UTF-8 bytes of a string, the encodings of its chars
\* in order (the bytes of the first half, then those of the second half)
as_bytes(s) ==
    IF Len(s) = 0 THEN <<>>
    ELSE IF Len(s) = 1 THEN encode_utf8(s[1])
    ELSE as_bytes(SubSeq(s, 1, Len(s) \div 2))
             \o as_bytes(SubSeq(s, Len(s) \div 2 + 1, Len(s)))

\* String::len: the length in bytes
str_len(s) == Len(as_bytes(s))

(***************************************************************************)
(* Buffer facade (buffers.rs).  With the `heapless` feature both buffers   *)
(* have a fixed capacity in bytes and push / push_str fail (the engine     *)
(* ignores the Err) when the addition does not fit; the default build uses *)
(* String, whose push always succeeds.                                     *)
(***************************************************************************)
new_raw_buffer == <<>>

new_out_buffer == <<>>

\* Mutant: a full buffer takes the char in place of its last one
push_Overwrite(heapless, capacity, s, c) ==
    IF heapless /\ str_len(s) + len_utf8(c) > capacity
    THEN Append(SubSeq(s, 1, Len(s) - 1), c)
    ELSE Append(s, c)

\* RawBuffer::push / OutBuffer::push with the result ignored (`let _ =`)
push(heapless, capacity, s, c) ==
    IF heapless /\ str_len(s) + len_utf8(c) > capacity THEN s ELSE Append(s, c)

\* OutBuffer::push_str with the result ignored
push_str(heapless, capacity, s, t) ==
    IF heapless /\ str_len(s) + str_len(t) > capacity THEN s ELSE s \o t

(***************************************************************************)
(* Modes (modes.rs).  A mode descriptor is one of two process-wide         *)
(* constants; the model names it and reads its tables through the          *)
(* operators below.                                                        *)
(***************************************************************************)
InputMethod == {"Telex", "Vni"}

mode_for(method) == IF method = "Telex" THEN "TELEX_MODE" ELSE "VNI_MODE"

\* Option<u8>::None / Option<usize>::None
None == -1

CLASSIFY_TELEX(b) ==
    IF b \in {Ch["a"], Ch["e"], Ch["o"], Ch["u"], Ch["i"], Ch["y"]} THEN IS_VOWEL
    ELSE IF b \in {Ch["w"], Ch["d"]} THEN IS_MODIFIER
    ELSE IF b \in {Ch["s"], Ch["f"], Ch["r"], Ch["x"], Ch["j"], Ch["z"]} THEN IS_TONE_KEY
    ELSE 0

\* Mutant: d is not an anchor of w
W_TARGET_TELEX_NoD(b) == b \in {Ch["a"], Ch["o"], Ch["u"]}

CLASSIFY_VNI(b) ==
    IF b \in {Ch["a"], Ch["e"], Ch["o"], Ch["u"], Ch["i"], Ch["y"]} THEN IS_VOWEL
    ELSE IF b \in {Ch["0"], Ch["1"], Ch["2"], Ch["3"], Ch["4"], Ch["5"]} THEN IS_TONE_KEY
    ELSE 0

W_TARGET_TELEX(b) == b \in {Ch["a"], Ch["o"], Ch["u"], Ch["d"]}

W_TARGET_VNI(b) == FALSE

TONE_TELEX(b) ==
    CASE b = Ch["s"] -> 1
      [] b = Ch["f"] -> 2
      [] b = Ch["r"] -> 3
      [] b = Ch["x"] -> 4
      [] b = Ch["j"] -> 5
      [] OTHER -> 0

TONE_VNI(b) ==
    CASE b = Ch["1"] -> 1
      [] b = Ch["2"] -> 2
      [] b = Ch["3"] -> 3
      [] b = Ch["4"] -> 4
      [] b = Ch["5"] -> 5
      [] OTHER -> 0

\* Mutant: the resolver without the digraph aw
resolve_telex_NoBreve(curr, next) ==
    CASE curr = Ch["a"] /\ next = Ch["a"] -> [c |-> Ch["aa"], consumed |-> TRUE]
      [] curr = Ch["e"] /\ next = Ch["e"] -> [c |-> Ch["ee"], consumed |-> TRUE]
      [] curr = Ch["o"] /\ next = Ch["o"] -> [c |-> Ch["oo"], consumed |-> TRUE]
      [] curr = Ch["o"] /\ next = Ch["w"] -> [c |-> Ch["ow"], consumed |-> TRUE]
      [] curr = Ch["u"] /\ next = Ch["w"] -> [c |-> Ch["uw"], consumed |-> TRUE]
      [] curr = Ch["d"] /\ next = Ch["d"] -> [c |-> Ch["dd"], consumed |-> TRUE]
      [] OTHER -> IF curr = Ch["w"] THEN [c |-> Ch["uw"], consumed |-> FALSE]
                  ELSE [c |-> curr, consumed |-> FALSE]

\* Mutant: the resolver without d9
resolve_vni_NoStroke(curr, next) ==
    CASE curr = Ch["a"] /\ next = Ch["6"] -> [c |-> Ch["aa"], consumed |-> TRUE]
      [] curr = Ch["a"] /\ next = Ch["8"] -> [c |-> Ch["aw"], consumed |-> TRUE]
      [] curr = Ch["e"] /\ next = Ch["6"] -> [c |-> Ch["ee"], consumed |-> TRUE]
      [] curr = Ch["o"] /\ next = Ch["6"] -> [c |-> Ch["oo"], consumed |-> TRUE]
      [] curr = Ch["o"] /\ next = Ch["7"] -> [c |-> Ch["ow"], consumed |-> TRUE]
      [] curr = Ch["u"] /\ next = Ch["7"] -> [c |-> Ch["uw"], consumed |-> TRUE]
      [] OTHER -> [c |-> curr, consumed |-> FALSE]

\* (char, consumed): the byte pair curr,next is rewritten to one character
resolve_telex(curr, next) ==
    CASE curr = Ch["a"] /\ next = Ch["a"] -> [c |-> Ch["aa"], consumed |-> TRUE]
      [] curr = Ch["a"] /\ next = Ch["w"] -> [c |-> Ch["aw"], consumed |-> TRUE]
      [] curr = Ch["e"] /\ next = Ch["e"] -> [c |-> Ch["ee"], consumed |-> TRUE]
      [] curr = Ch["o"] /\ next = Ch["o"] -> [c |-> Ch["oo"], consumed |-> TRUE]
      [] curr = Ch["o"] /\ next = Ch["w"] -> [c |-> Ch["ow"], consumed |-> TRUE]
      [] curr = Ch["u"] /\ next = Ch["w"] -> [c |-> Ch["uw"], consumed |-> TRUE]
      [] curr = Ch["d"] /\ next = Ch["d"] -> [c |-> Ch["dd"], consumed |-> TRUE]
      [] OTHER -> IF curr = Ch["w"] THEN [c |-> Ch["uw"], consumed |-> FALSE]
                  ELSE [c |-> curr, consumed |-> FALSE]

resolve_vni(curr, next) ==
    CASE curr = Ch["a"] /\ next = Ch["6"] -> [c |-> Ch["aa"], consumed |-> TRUE]
      [] curr = Ch["a"] /\ next = Ch["8"] -> [c |-> Ch["aw"], consumed |-> TRUE]
      [] curr = Ch["e"] /\ next = Ch["6"] -> [c |-> Ch["ee"], consumed |-> TRUE]
      [] curr = Ch["o"] /\ next = Ch["6"] -> [c |-> Ch["oo"], consumed |-> TRUE]
      [] curr = Ch["o"] /\ next = Ch["7"] -> [c |-> Ch["ow"], consumed |-> TRUE]
      [] curr = Ch["u"] /\ next = Ch["7"] -> [c |-> Ch["uw"], consumed |-> TRUE]
      [] curr = Ch["d"] /\ next = Ch["9"] -> [c |-> Ch["dd"], consumed |-> TRUE]
      [] OTHER -> [c |-> curr, consumed |-> FALSE]

\* The fields of TELEX_MODE / VNI_MODE
classify(mode, b) == IF mode = "TELEX_MODE" THEN CLASSIFY_TELEX(b) ELSE CLASSIFY_VNI(b)

tone(mode, b) == IF mode = "TELEX_MODE" THEN TONE_TELEX(b) ELSE TONE_VNI(b)

w_target(mode, b) == IF mode = "TELEX_MODE" THEN W_TARGET_TELEX(b) ELSE W_TARGET_VNI(b)

resolver(mode, curr, next) ==
    IF mode = "TELEX_MODE" THEN resolve_telex(curr, next) ELSE resolve_vni(curr, next)

enable_w_bubbling(mode) == mode = "TELEX_MODE"

(***************************************************************************)
(* Vowel / tone table (tone module: is_vowel_unicode, map_vowel_with_tone).*)
(* VOWEL_TONE[base][t] is base carrying tone t in 1..5 (acute, grave,      *)
(* hook-above, tilde, dot-below).                                          *)
(***************************************************************************)
VOWEL_TONE ==
    (Ch["a"]  :> <<225, 224, 7843, 227, 7841>>) @@
    (Ch["aw"] :> <<7855, 7857, 7859, 7861, 7863>>) @@
    (Ch["aa"] :> <<7845, 7847, 7849, 7851, 7853>>) @@
    (Ch["e"]  :> <<233, 232, 7867, 7869, 7865>>) @@
    (Ch["ee"] :> <<7871, 7873, 7875, 7877, 7879>>) @@
    (Ch["i"]  :> <<237, 236, 7881, 297, 7883>>) @@
    (Ch["o"]  :> <<243, 242, 7887, 245, 7885>>) @@
    (Ch["oo"] :> <<7889, 7891, 7893, 7895, 7897>>) @@
    (Ch["ow"] :> <<7899, 7901, 7903, 7905, 7907>>) @@
    (Ch["u"]  :> <<250, 249, 7911, 361, 7909>>) @@
    (Ch["uw"] :> <<7913, 7915, 7917, 7919, 7921>>) @@
    (Ch["y"]  :> <<253, 7923, 7927, 7929, 7925>>)

\* "aeiouy" and the six modified vowels
is_vowel_unicode(c) == c \in DOMAIN VOWEL_TONE

\* The set of characters that carry a tone mark
Toned == UNION {{VOWEL_TONE[v][t] : t \in 1..5} : v \in DOMAIN VOWEL_TONE}

\* The untoned base of a toned vowel, any other character itself
BaseOf(c, table) ==
    IF \E v \in DOMAIN table : \E t \in 1..5 : table[v][t] = c
    THEN CHOOSE v \in DOMAIN table : \E t \in 1..5 : table[v][t] = c
    ELSE c

\* Mutant: every tone id gives the untoned base
WithTone_Base(c, base, tone_id, table) == base

\* The match on (base, tone_id)
WithTone(c, base, tone_id, table) ==
    IF tone_id = 0 THEN base
    ELSE IF base \in DOMAIN table /\ tone_id \in 1..5 THEN table[base][tone_id]
    ELSE c

map_vowel_with_tone(c, tone_id) ==
    WithTone(c, BaseOf(c, VOWEL_TONE), tone_id, VOWEL_TONE)

(***************************************************************************)
(* render_str, first loop: tone extraction fused with the triple-repeat    *)
(* toggling (engine.rs 78-164).  The scratch array `toggled` and its       *)
(* length t_len are the sequence `toggled`; an index outside the array or  *)
(* a usize underflow sets `panic`.                                         *)
(***************************************************************************)
TonePassInit ==
    [toggled |-> <<>>, last_tone_char |-> 0, tone_cancelled |-> FALSE,
     run_char |-> 0, run_count |-> 0, seen_mod |-> {}, need_mod_bubble |-> FALSE,
     has_w |-> FALSE, panic |-> FALSE]

\* toggled[t_len] = b; t_len += 1
Emit(st, b) ==
    IF Len(st.toggled) < ScratchLen THEN [st EXCEPT !.toggled = Append(@, b)]
    ELSE [st EXCEPT !.panic = TRUE]

\* if t_len < 32 { toggled[t_len] = b; t_len += 1; }
EmitIfRoom(st, b) ==
    IF Len(st.toggled) < ScratchLen THEN [st EXCEPT !.toggled = Append(@, b)] ELSE st

\* Mutant: Rule 2 without k
RClusterPrev_NoK == {Ch["t"], Ch["p"], Ch["f"], Ch["c"], Ch["b"], Ch["d"], Ch["g"]}

\* The bytes after which an `r` is kept as a letter (Rule 2)
RClusterPrev == {Ch["t"], Ch["p"], Ch["f"], Ch["c"], Ch["b"], Ch["d"], Ch["g"], Ch["k"]}

\* The bytes the triple-repeat toggling and the free-style bubbling act on
ToggleBytes == {Ch["a"], Ch["e"], Ch["o"], Ch["d"]}

\* match b { a|e|o|d => seen_mod / need_mod_bubble, w => has_w }
TrackFlags(st, b) ==
    IF b \in ToggleBytes
    THEN [st EXCEPT !.need_mod_bubble = @ \/ (b \in st.seen_mod),
                    !.seen_mod = @ \cup {b}]
    ELSE IF b = Ch["w"] THEN [st EXCEPT !.has_w = TRUE]
    ELSE st

\* Mutant: the collapse leaves run_count as it is
CollapseTriple_KeepCount(st) ==
    IF Len(st.toggled) = 0 THEN [st EXCEPT !.panic = TRUE]
    ELSE [st EXCEPT !.toggled = SubSeq(@, 1, Len(@) - 1)]

\* t_len -= 1; run_count = 1 (the third copy of a, e, o or d)
CollapseTriple(st) ==
    IF Len(st.toggled) = 0 THEN [st EXCEPT !.panic = TRUE]
    ELSE [st EXCEPT !.toggled = SubSeq(@, 1, Len(@) - 1), !.run_count = 1]

\* Mutant: the first tone key of the syllable is kept, later ones are dropped
ToneKey_FirstWins(st, b) ==
    IF b = st.last_tone_char
    THEN [EmitIfRoom(st, b) EXCEPT !.last_tone_char = 0, !.tone_cancelled = TRUE]
    ELSE IF st.tone_cancelled THEN EmitIfRoom(st, b)
    ELSE IF st.last_tone_char = 0 THEN [st EXCEPT !.last_tone_char = b]
    ELSE st

\* Mutant: a cancelled tone does not stick, a later tone key sets a tone again
ToneKey_NotSticky(st, b) ==
    IF b = st.last_tone_char
    THEN [EmitIfRoom(st, b) EXCEPT !.last_tone_char = 0, !.tone_cancelled = TRUE]
    ELSE [st EXCEPT !.last_tone_char = b]

\* Mutant: a tone key is never stripped
ToneKey_Literal(st, b) == EmitIfRoom(st, b)

\* A tone key that is neither the first byte nor the r of a cluster: the
\* double-tap cancel, the sticky cancellation, or the new remembered tone key
ToneKey(st, b) ==
    IF b = st.last_tone_char
    THEN [EmitIfRoom(st, b) EXCEPT !.last_tone_char = 0, !.tone_cancelled = TRUE]
    ELSE IF st.tone_cancelled THEN EmitIfRoom(st, b)
    ELSE [st EXCEPT !.last_tone_char = b]

\* Mutant: a tone key at index 0 is handled like any other tone key
TonePassStep_NoRule1(mode, bytes, st, idx) ==
    LET b == bytes[idx + 1]
        attr == classify(mode, b)
        is_tone == (attr \div IS_TONE_KEY) % 2 = 1
        restart == [st EXCEPT !.run_char = b, !.run_count = 1]
    IN  IF is_tone
        THEN IF idx > 0 /\ b = Ch["r"] /\ bytes[idx] \in RClusterPrev THEN Emit(restart, b)
             ELSE ToneKey(st, b)
        ELSE IF b = st.run_char
             THEN LET run == [st EXCEPT !.run_count = @ + 1]
                  IN  IF run.run_count = 3 /\ b \in ToggleBytes
                      THEN CollapseTriple(run)
                      ELSE Emit(TrackFlags(run, b), b)
             ELSE Emit(TrackFlags(restart, b), b)

\* One iteration of the loop body for the byte at index idx
TonePassStep(mode, bytes, st, idx) ==
    LET b == bytes[idx + 1]
        attr == classify(mode, b)
        is_tone == (attr \div IS_TONE_KEY) % 2 = 1
        restart == [st EXCEPT !.run_char = b, !.run_count = 1]
    IN  IF is_tone
        THEN IF idx = 0 THEN Emit(restart, b)
             ELSE IF b = Ch["r"] /\ bytes[idx] \in RClusterPrev THEN Emit(restart, b)
             ELSE ToneKey(st, b)
        ELSE IF b = st.run_char
             THEN LET run == [st EXCEPT !.run_count = @ + 1]
                  IN  IF run.run_count = 3 /\ b \in ToggleBytes
                      THEN CollapseTriple(run)
                      ELSE Emit(TrackFlags(run, b), b)
             ELSE Emit(TrackFlags(restart, b), b)

RECURSIVE TonePass(_, _, _, _, _)
\* for (idx, &b) in bytes.iter().enumerate(): the iterations lo..hi-1 in
\* order (lo..mid-1, then mid..hi-1), stopped by a panic
TonePass(mode, bytes, st, lo, hi) ==
    IF lo >= hi \/ st.panic THEN st
    ELSE IF hi = lo + 1 THEN TonePassStep(mode, bytes, st, lo)
    ELSE TonePass(mode, bytes, TonePass(mode, bytes, st, lo, (lo + hi) \div 2),
                  (lo + hi) \div 2, hi)

(***************************************************************************)
(* render_str, fused modifier + w bubbling pass (engine.rs 166-265).       *)
(***************************************************************************)
\* Mutant: the byte is appended instead of spliced
InsertAt_AtEnd(arr, at, c) == Append(arr, c)

\* arr.copy_within(at..len, at + 1); arr[at] = c
InsertAt(arr, at, c) == SubSeq(arr, 1, at) \o <<c>> \o SubSeq(arr, at + 1, Len(arr))

ModBubbleInit ==
    [buf |-> <<>>, last_pos |-> [s \in ToggleBytes |-> NoPos], wi |-> 0, panic |-> FALSE]

\* Phase 1 of the pass, one iteration of `while wi < t_len`
ModBubbleStep(mode, toggled, st) ==
    LET c == toggled[st.wi + 1]
        b_len == Len(st.buf)
        t_len == Len(toggled)
    IN  IF b_len >= ScratchLen THEN [st EXCEPT !.panic = TRUE]
        ELSE IF c = Ch["w"] /\ enable_w_bubbling(mode)
        THEN IF st.wi + 1 < t_len /\ toggled[st.wi + 2] = Ch["w"]
             THEN [st EXCEPT !.buf = Append(@, W_LITERAL), !.wi = @ + 2]
             ELSE [st EXCEPT !.buf = Append(@, c), !.wi = @ + 1]
        ELSE IF c \in ToggleBytes
        THEN IF st.last_pos[c] # NoPos
             THEN LET insert_at == st.last_pos[c] + 1
                  IN  [st EXCEPT !.buf = InsertAt(@, insert_at, c),
                                 !.last_pos = [s \in ToggleBytes |->
                                     IF s = c THEN NoPos
                                     ELSE IF @[s] # NoPos /\ @[s] >= insert_at
                                          THEN @[s] + 1
                                          ELSE @[s]],
                                 !.wi = @ + 1]
             ELSE [st EXCEPT !.last_pos[c] = b_len, !.buf = Append(@, c), !.wi = @ + 1]
        ELSE [st EXCEPT !.buf = Append(@, c), !.wi = @ + 1]

RECURSIVE ModBubble(_, _, _, _)
\* while wi < t_len: at most n iterations (the first n \div 2, then the
\* rest); t_len iterations end the loop, wi grows in each
ModBubble(mode, toggled, st, n) ==
    IF st.wi >= Len(toggled) \/ st.panic THEN st
    ELSE IF n <= 1 THEN ModBubbleStep(mode, toggled, st)
    ELSE ModBubble(mode, toggled, ModBubble(mode, toggled, st, n \div 2), n - n \div 2)

WBubbleInit == [out |-> <<>>, last_target_pos |-> None, panic |-> FALSE]

\* Mutant: a w with no target before it is dropped
WBubbleStep_DropW(mode, buf, st, k) ==
    LET c == buf[k + 1]
        o_len == Len(st.out)
    IN  IF o_len >= ScratchLen THEN [st EXCEPT !.panic = TRUE]
        ELSE IF c = Ch["w"]
        THEN IF st.last_target_pos # None
             THEN [st EXCEPT !.out = InsertAt(@, st.last_target_pos + 1, Ch["w"])]
             ELSE st
        ELSE IF w_target(mode, c)
             THEN [st EXCEPT !.out = Append(@, c), !.last_target_pos = o_len]
             ELSE [st EXCEPT !.out = Append(@, c)]

\* Phase 2 of the pass, one iteration of `for k in 0..b_len`
WBubbleStep(mode, buf, st, k) ==
    LET c == buf[k + 1]
        o_len == Len(st.out)
    IN  IF o_len >= ScratchLen THEN [st EXCEPT !.panic = TRUE]
        ELSE IF c = Ch["w"]
        THEN IF st.last_target_pos # None
             THEN [st EXCEPT !.out = InsertAt(@, st.last_target_pos + 1, Ch["w"])]
             ELSE [st EXCEPT !.out = Append(@, Ch["w"])]
        ELSE IF w_target(mode, c)
             THEN [st EXCEPT !.out = Append(@, c), !.last_target_pos = o_len]
             ELSE [st EXCEPT !.out = Append(@, c)]

RECURSIVE WBubble(_, _, _, _, _)
\* for k in 0..b_len: the iterations lo..hi-1 in order, stopped by a panic
WBubble(mode, buf, st, lo, hi) ==
    IF lo >= hi \/ st.panic THEN st
    ELSE IF hi = lo + 1 THEN WBubbleStep(mode, buf, st, lo)
    ELSE WBubble(mode, buf, WBubble(mode, buf, st, lo, (lo + hi) \div 2),
                 (lo + hi) \div 2, hi)

\* The whole pass: the working buffer handed to the resolver
Bubble(mode, tp) ==
    LET need_w_pass == tp.has_w /\ enable_w_bubbling(mode)
        mb == ModBubble(mode, tp.toggled, ModBubbleInit, Len(tp.toggled))
        wb == WBubble(mode, mb.buf, WBubbleInit, 0, Len(mb.buf))
    IN  IF tp.need_mod_bubble \/ need_w_pass
        THEN IF mb.panic THEN [toggled |-> mb.buf, panic |-> TRUE]
             ELSE IF need_w_pass THEN [toggled |-> wb.out, panic |-> wb.panic]
             ELSE [toggled |-> mb.buf, panic |-> FALSE]
        ELSE [toggled |-> tp.toggled, panic |-> FALSE]

(***************************************************************************)
(* render_str, resolver loop (engine.rs 267-322): the working bytes become *)
(* characters; vowel_mask is the set of positions below 16 holding a vowel.*)
(***************************************************************************)
ResolveInit == [char_buf |-> <<>>, vowel_mask |-> {}, i |-> 0, panic |-> FALSE]

\* char_buf[c_len] = c; the vowel mask; c_len += 1; i += consumed + 1
PushChar(st, c, consumed) ==
    [st EXCEPT !.char_buf = Append(@, c),
               !.vowel_mask = IF is_vowel_unicode(c) /\ Len(st.char_buf) < MaskBits
                              THEN @ \cup {Len(st.char_buf)} ELSE @,
               !.i = @ + (IF consumed THEN 2 ELSE 1)]

\* Mutant: u followed by o is taken for the u-o-w cluster without its w
is_uow_NoW(toggled, i, curr, next, consumed) ==
    /\ curr = Ch["u"] /\ ~consumed
    /\ next = Ch["o"]
    /\ ~(i > 0 /\ toggled[i] \in {Ch["q"], Ch["Q"]})

\* Mutant: the u-o-w cluster without the q exception
is_uow_AfterQ(toggled, i, curr, next, consumed) ==
    /\ curr = Ch["u"] /\ ~consumed
    /\ next = Ch["o"]
    /\ i + 2 < Len(toggled) /\ toggled[i + 3] = Ch["w"]

\* The u-o-w cluster: curr is u, not after q, the resolver consumed nothing
\* and "ow" follows
is_uow(toggled, i, curr, next, consumed) ==
    /\ curr = Ch["u"] /\ ~consumed
    /\ next = Ch["o"]
    /\ i + 2 < Len(toggled) /\ toggled[i + 3] = Ch["w"]
    /\ ~(i > 0 /\ toggled[i] \in {Ch["q"], Ch["Q"]})

\* The character for curr given the resolver's answer r
ResolveChar(toggled, st, curr, next, r) ==
    IF is_uow(toggled, st.i, curr, next, r.consumed)
    THEN PushChar(st, Ch["uw"], r.consumed)
    ELSE PushChar(st, r.c, r.consumed)

\* Mutant: the literal-w sentinel resolves to u-horn
ResolvePair_LiteralHorn(mode, toggled, st, curr, next) ==
    IF curr = W_LITERAL
    THEN [st EXCEPT !.char_buf = Append(@, Ch["uw"]), !.i = @ + 1]
    ELSE ResolveChar(toggled, st, curr, next, resolver(mode, curr, next))

\* The sentinel becomes a literal w; any other byte goes to the resolver
ResolvePair(mode, toggled, st, curr, next) ==
    IF curr = W_LITERAL
    THEN [st EXCEPT !.char_buf = Append(@, Ch["w"]), !.i = @ + 1]
    ELSE ResolveChar(toggled, st, curr, next, resolver(mode, curr, next))

\* One iteration of `while i < t_len`
ResolveStep(mode, toggled, st) ==
    IF Len(st.char_buf) >= ScratchLen THEN [st EXCEPT !.panic = TRUE]
    ELSE ResolvePair(mode, toggled, st, toggled[st.i + 1],
                     IF st.i + 1 < Len(toggled) THEN toggled[st.i + 2] ELSE None)

RECURSIVE Resolve(_, _, _, _)
\* while i < t_len: at most n iterations (the first n \div 2, then the rest);
\* t_len iterations end the loop, i grows in each
Resolve(mode, toggled, st, n) ==
    IF st.i >= Len(toggled) \/ st.panic THEN st
    ELSE IF n <= 1 THEN ResolveStep(mode, toggled, st)
    ELSE Resolve(mode, toggled, Resolve(mode, toggled, st, n \div 2), n - n \div 2)

(***************************************************************************)
(* Validation and tone placement (engine.rs 357-474).  chars is the        *)
(* rendered character sequence, chars[p + 1] the character at position p.  *)
(***************************************************************************)
\* u16::trailing_zeros of a non-empty mask: its lowest position
trailing_zeros(mask) == CHOOSE p \in mask : \A q \in mask : p <= q

\* Mutant: the table without its last mark
INVALID_PAIR_TABLE_NoPB ==
    {<<c1, c2>> \in {Ch["c"], Ch["f"], Ch["b"], Ch["g"], Ch["s"], Ch["p"], Ch["d"], Ch["k"]}
                       \X (Ch["a"]..Ch["z"]) :
        /\ <<c1, c2>> # <<Ch["p"], Ch["b"]>>
        /\ \/ c2 = Ch["l"] /\ c1 \in {Ch["c"], Ch["f"], Ch["b"], Ch["g"], Ch["s"], Ch["p"]}
           \/ c2 = Ch["r"] /\ c1 \in {Ch["b"], Ch["p"], Ch["d"], Ch["f"], Ch["g"], Ch["k"]}
           \/ c1 = Ch["s"] /\ c2 \in {Ch["t"], Ch["p"], Ch["k"]}
           \/ c1 = Ch["p"] /\ c2 \in {Ch["t"], Ch["c"], Ch["g"], Ch["q"], Ch["s"], Ch["k"],
                                       Ch["d"], Ch["f"], Ch["b"]}}

\* The (c1, c2) pairs marked in INVALID_PAIR_TABLE
INVALID_PAIR_TABLE ==
    {<<Ch["c"], Ch["l"]>>, <<Ch["f"], Ch["l"]>>, <<Ch["b"], Ch["l"]>>, <<Ch["g"], Ch["l"]>>,
     <<Ch["s"], Ch["l"]>>, <<Ch["p"], Ch["l"]>>,
     <<Ch["b"], Ch["r"]>>, <<Ch["p"], Ch["r"]>>, <<Ch["d"], Ch["r"]>>, <<Ch["f"], Ch["r"]>>,
     <<Ch["g"], Ch["r"]>>, <<Ch["k"], Ch["r"]>>,
     <<Ch["s"], Ch["t"]>>, <<Ch["s"], Ch["p"]>>, <<Ch["s"], Ch["k"]>>,
     <<Ch["p"], Ch["t"]>>, <<Ch["p"], Ch["c"]>>, <<Ch["p"], Ch["g"]>>, <<Ch["p"], Ch["q"]>>,
     <<Ch["p"], Ch["s"]>>, <<Ch["p"], Ch["k"]>>, <<Ch["p"], Ch["d"]>>, <<Ch["p"], Ch["f"]>>,
     <<Ch["p"], Ch["b"]>>}

is_invalid_vietnamese_chars(chars, vowel_mask) ==
    IF vowel_mask = {} THEN Len(chars) > 1
    ELSE LET first_vowel_pos == trailing_zeros(vowel_mask)
             \* (mask_o & (mask_u >> 1)) != 0 over the first 32 positions
             ou == \E idx \in 0..(ScratchLen - 2) :
                      /\ idx + 2 <= Len(chars)
                      /\ chars[idx + 1] = Ch["o"] /\ chars[idx + 2] = Ch["u"]
         IN  IF ou THEN TRUE
             ELSE IF first_vowel_pos >= 3
             THEN ~(/\ first_vowel_pos = 3
                    /\ Len(chars) >= 3
                    /\ chars[1] = Ch["n"] /\ chars[2] = Ch["g"] /\ chars[3] = Ch["h"])
             ELSE IF first_vowel_pos = 2
             THEN /\ chars[1] \in Ch["a"]..Ch["z"]
                  /\ chars[2] \in Ch["a"]..Ch["z"]
                  /\ <<chars[1], chars[2]>> \in INVALID_PAIR_TABLE
             ELSE FALSE

\* chars.get(p).copied().unwrap_or('\0')
GetOrNul(chars, p) == IF p < Len(chars) THEN chars[p + 1] ELSE 0

\* The first vowel f and the second vowel sc of a two-vowel syllable
prefer_first(f, sc) ==
    \/ f \in {Ch["u"], Ch["uw"]} /\ sc = Ch["i"]
    \/ /\ f \in {Ch["ow"], Ch["oo"], Ch["ee"], Ch["aa"], Ch["aw"]}
       /\ sc \in {Ch["a"], Ch["e"], Ch["i"], Ch["o"], Ch["u"], Ch["y"]}

is_open_pair(f, sc) ==
    \/ f = Ch["i"] /\ sc \in {Ch["a"], Ch["u"]}
    \/ f = Ch["u"] /\ sc \in {Ch["a"], Ch["e"]}
    \/ f = Ch["uw"] /\ sc \in {Ch["a"], Ch["u"]}
    \/ f = Ch["a"] /\ sc \in {Ch["o"], Ch["e"], Ch["i"], Ch["u"], Ch["y"]}
    \/ f = Ch["e"] /\ sc \in {Ch["o"], Ch["u"]}
    \/ f = Ch["o"] /\ sc = Ch["i"]
    \/ f = Ch["aa"] /\ sc \in {Ch["y"], Ch["u"]}

\* Mutant: no qu / gi exception
qu_gi_Never(chars, first) == FALSE

\* Mutant: an open pair takes the tone on its first vowel, coda or not
PairTarget_IgnoreCoda(chars, first, second, f, sc, not_qu_gi) ==
    IF prefer_first(f, sc) /\ not_qu_gi THEN first
    ELSE IF is_open_pair(f, sc) /\ not_qu_gi THEN first
    ELSE second

\* The first vowel is the u of qu or the i of gi
qu_gi(chars, first) ==
    /\ Len(chars) >= 2
    /\ first = 1
    /\ \/ chars[1] \in {Ch["q"], Ch["Q"]} /\ chars[2] \in {Ch["u"], Ch["U"]}
       \/ chars[1] \in {Ch["g"], Ch["G"]} /\ chars[2] \in {Ch["i"], Ch["I"]}

PairTarget(chars, first, second, f, sc, not_qu_gi) ==
    IF prefer_first(f, sc) /\ not_qu_gi THEN first
    ELSE IF is_open_pair(f, sc) /\ not_qu_gi
    THEN (IF second + 1 < Len(chars) THEN second ELSE first)
    ELSE second

PairAt(chars, first, second) ==
    PairTarget(chars, first, second, GetOrNul(chars, first), GetOrNul(chars, second),
               ~qu_gi(chars, first))

\* The position the tone goes to when exactly two vowels are rendered
TwoVowelTarget(chars, mask) ==
    PairAt(chars, trailing_zeros(mask), trailing_zeros(mask \ {trailing_zeros(mask)}))

\* Mutant: the target is left without its tone
ToneAt_Unplaced(chars, target_pos, tone_id) == chars

\* The vowel at target_pos, if it is inside the syllable, takes the tone
ToneAt(chars, target_pos, tone_id) ==
    IF target_pos < Len(chars)
    THEN [chars EXCEPT ![target_pos + 1] = map_vowel_with_tone(@, tone_id)]
    ELSE chars

\* Mutant: with three or more vowels the tone goes to the last one
apply_tone_in_place_Last(chars, mask, tone_id) ==
    IF Cardinality(mask) = 0 THEN chars
    ELSE IF Cardinality(mask) = 1 THEN ToneAt(chars, trailing_zeros(mask), tone_id)
    ELSE IF Cardinality(mask) = 2 THEN ToneAt(chars, TwoVowelTarget(chars, mask), tone_id)
    ELSE ToneAt(chars, CHOOSE q \in mask : \A r \in mask : r <= q, tone_id)

\* Mutant: the tone always goes to the first vowel
apply_tone_in_place_First(chars, mask, tone_id) ==
    IF mask = {} THEN chars
    ELSE [chars EXCEPT ![trailing_zeros(mask) + 1] = map_vowel_with_tone(@, tone_id)]

apply_tone_in_place(chars, mask, tone_id) ==
    IF Cardinality(mask) = 0 THEN chars
    ELSE IF Cardinality(mask) = 1 THEN ToneAt(chars, trailing_zeros(mask), tone_id)
    ELSE IF Cardinality(mask) = 2 THEN ToneAt(chars, TwoVowelTarget(chars, mask), tone_id)
    ELSE ToneAt(chars, trailing_zeros(mask \ {trailing_zeros(mask)}), tone_id)

(***************************************************************************)
(* The engine (engine.rs 26-355).  An engine value is a record of the      *)
(* struct's fields, the build's buffer kind (heapless) and whether a       *)
(* render pass has panicked.                                               *)
(***************************************************************************)
\* UltraFastViEngine::new
new(heapless) ==
    [raw_buffer |-> new_raw_buffer, out_buffer |-> new_out_buffer,
     input_method |-> "Telex", mode |-> mode_for("Telex"),
     heapless |-> heapless, panicked |-> FALSE]

\* Mutant: clear() empties the raw buffer only
clear_KeepOut(e) == [e EXCEPT !.raw_buffer = <<>>]

clear(e) == [e EXCEPT !.raw_buffer = <<>>, !.out_buffer = <<>>]

\* Mutant: the mode swap re-renders the raw buffer under the new mode
set_input_method_Rerender(e, method) ==
    LET r == [e EXCEPT !.input_method = method, !.mode = mode_for(method)]
    IN  [r EXCEPT !.out_buffer =
            IF r.raw_buffer = <<>> THEN <<>>
            ELSE [i \in 1..Len(r.raw_buffer) |->
                     resolver(r.mode, r.raw_buffer[i], None).c]]

set_input_method(e, method) ==
    [e EXCEPT !.input_method = method, !.mode = mode_for(method)]

\* A buffer that takes no further char: a heapless buffer at its capacity
is_full(heapless, capacity, s) == str_len(s) >= capacity /\ heapless

RECURSIVE PushAll(_, _, _)
\* for &c in chars { let _ = out_buffer.push(c); }: the chars in order (the
\* first half, then the second half); every push to a full buffer fails
PushAll(heapless, out, chars) ==
    IF Len(chars) = 0 \/ is_full(heapless, OutCapacity, out) THEN out
    ELSE IF Len(chars) = 1 THEN push(heapless, OutCapacity, out, chars[1])
    ELSE PushAll(heapless,
                 PushAll(heapless, out, SubSeq(chars, 1, Len(chars) \div 2)),
                 SubSeq(chars, Len(chars) \div 2 + 1, Len(chars)))

\* Mutant: the raw buffer is pushed without out_buffer.clear()
FallbackToRaw_NoClear(e) ==
    [e EXCEPT !.out_buffer = push_str(e.heapless, OutCapacity, @, e.raw_buffer)]

\* out_buffer.clear(); out_buffer.push_str(&raw_buffer)  (the fallback to raw)
FallbackToRaw(e) ==
    [e EXCEPT !.out_buffer = push_str(e.heapless, OutCapacity, <<>>, e.raw_buffer)]

\* Mutant: the rendered characters are pushed without out_buffer.clear()
WriteOut_NoClear(e, chars) ==
    [e EXCEPT !.out_buffer = PushAll(e.heapless, e.out_buffer, chars)]

\* out_buffer.clear(); then every rendered character is pushed
WriteOut(e, chars) == [e EXCEPT !.out_buffer = PushAll(e.heapless, <<>>, chars)]

\* Mutant: the render pass reads the whole raw buffer, not its first 32 bytes
RenderBytes_NoTruncate(raw) == as_bytes(raw)

\* let bytes = &bytes_all[..bytes_all.len().min(32)]
RenderBytes(raw) ==
    LET bytes_all == as_bytes(raw)
    IN  SubSeq(bytes_all, 1, IF Len(bytes_all) < RawCapacity THEN Len(bytes_all)
                             ELSE RawCapacity)

\* The three scratch passes over the first bytes of the raw buffer: the tone
\* pass (tp), the bubbling pass over its result (bb), the resolver loop (rs)
BubblePass(mode, tp) == [tp |-> tp, bb |-> Bubble(mode, tp)]

ResolvePass(mode, p) ==
    [tp |-> p.tp, bb |-> p.bb, rs |-> Resolve(mode, p.bb.toggled, ResolveInit, Len(p.bb.toggled))]

Passes(mode, bytes) ==
    ResolvePass(mode, BubblePass(mode, TonePass(mode, bytes, TonePassInit, 0, Len(bytes))))

\* has_modified: a rendered character is not ASCII
has_modified(chars) == \E p \in 1..Len(chars) : ~is_ascii(chars[p])

\* No vowel in the resolved output, a tone key was stripped and no modifier
\* was applied
vowel_less_fallback(tp, rs) ==
    /\ rs.vowel_mask = {}
    /\ tp.last_tone_char # 0
    /\ ~tp.tone_cancelled
    /\ ~has_modified(rs.char_buf)

\* The end of render_str: fallbacks, tone placement, write to out_buffer
Finish(e, tp, rs) ==
    IF vowel_less_fallback(tp, rs)
    THEN FallbackToRaw(e)
    ELSE IF is_invalid_vietnamese_chars(rs.char_buf, rs.vowel_mask)
    THEN FallbackToRaw(e)
    ELSE IF tp.last_tone_char > 0
    THEN WriteOut(e, apply_tone_in_place(rs.char_buf, rs.vowel_mask,
                                         tone(e.mode, tp.last_tone_char)))
    ELSE WriteOut(e, rs.char_buf)

\* An index out of range or an underflow in a pass panics
Rendered(e, p) ==
    IF p.tp.panic \/ p.bb.panic \/ p.rs.panic THEN [e EXCEPT !.panicked = TRUE]
    ELSE Finish(e, p.tp, p.rs)

render_str(e) ==
    IF e.raw_buffer = <<>> THEN [e EXCEPT !.out_buffer = <<>>]
    ELSE Rendered(e, Passes(e.mode, RenderBytes(e.raw_buffer)))

\* self.raw_buffer.clear(); let _ = self.out_buffer.push(key)
Flush(r, key) ==
    IF r.panicked THEN r
    ELSE [r EXCEPT !.raw_buffer = <<>>,
                   !.out_buffer = push(r.heapless, OutCapacity, @, key)]

\* Mutant: the whitespace branch appends the key without rendering first
FeedWhitespace_NoRender(e, key) ==
    [e EXCEPT !.raw_buffer = <<>>,
              !.out_buffer = push(e.heapless, OutCapacity, @, key)]

\* Mutant: the whitespace branch does not clear the raw buffer
FeedWhitespace_KeepRaw(e, key) ==
    [render_str(e) EXCEPT !.out_buffer = push(e.heapless, OutCapacity, @, key)]

\* feed, the whitespace branch
FeedWhitespace(e, key) == Flush(render_str(e), key)

\* feed, any other key
FeedKey(e, key) ==
    render_str([e EXCEPT !.raw_buffer =
                   push(e.heapless, RawCapacity, @, to_ascii_lowercase(key))])

\* Mutant: no whitespace branch, every key is appended and rendered
feed_NoFlush(e, key) == FeedKey(e, key)

feed(e, key) == IF is_whitespace(key) THEN FeedWhitespace(e, key) ELSE FeedKey(e, key)

RECURSIVE type_seq(_, _)
\* for c in seq.chars() { engine.feed(c) }
type_seq(e, seq) == IF seq = <<>> THEN e ELSE type_seq(feed(e, Head(seq)), Tail(seq))

(***************************************************************************)
(* The state machine.  The program state is one engine and the build it    *)
(* was compiled for; the operations are the public API: feed, clear and    *)
(* set_input_method.                                                       *)
(*                                                                         *)
(* History variables (they record calls, they never influence the engine): *)
(*   last     the last call: its name and its argument                     *)
(*   fresh    a reference engine that receives the same calls as the       *)
(*            engine and is replaced by a newly constructed engine (set to *)
(*            the current method) at every whitespace feed; since_ws tells *)
(*            that a whitespace feed was the last call to empty the raw    *)
(*            buffer                                                       *)
(*   tracking whether `typed` is recorded in this specification            *)
(*   typed    the keys fed since construction or clear(): syllable a, a    *)
(*            whitespace w, syllable b                                     *)
(***************************************************************************)
VARIABLES raw_buffer, out_buffer, input_method, mode, heapless, panicked,
          last, fresh, tracking, typed

vars == <<raw_buffer, out_buffer, input_method, mode, heapless, panicked,
          last, fresh, tracking, typed>>

\* The engine as a value
Self ==
    [raw_buffer |-> raw_buffer, out_buffer |-> out_buffer,
     input_method |-> input_method, mode |-> mode,
     heapless |-> heapless, panicked |-> panicked]

\* The engine's fields after a call
Install(e) ==
    /\ raw_buffer' = e.raw_buffer
    /\ out_buffer' = e.out_buffer
    /\ input_method' = e.input_method
    /\ mode' = e.mode
    /\ heapless' = e.heapless
    /\ panicked' = e.panicked

NoTyped == [a |-> <<>>, w |-> <<>>, b |-> <<>>]

Call(op, key, method) == [op |-> op, key |-> key, method |-> method]

InitWith(track) ==
    /\ heapless \in BOOLEAN
    /\ raw_buffer = new(heapless).raw_buffer
    /\ out_buffer = new(heapless).out_buffer
    /\ input_method = new(heapless).input_method
    /\ mode = new(heapless).mode
    /\ panicked = FALSE
    /\ last = Call("new", None, "Telex")
    /\ fresh = [ws |-> new(heapless), since_ws |-> FALSE]
    /\ tracking = track
    /\ typed = NoTyped

Init == InitWith(FALSE)

\* The key fed to the engine and to the reference engine
FeedBoth(key) == [e \in {Self, fresh.ws} |-> feed(e, key)]

\* engine.feed(key)
Feed(key) ==
    /\ ~panicked
    /\ \E fed \in {FeedBoth(key)} :
           /\ Install(fed[Self])
           /\ fresh' = IF is_whitespace(key)
                       THEN [ws |-> set_input_method(new(heapless), input_method),
                             since_ws |-> TRUE]
                       ELSE [fresh EXCEPT !.ws = fed[@]]
    /\ last' = Call("feed", key, input_method)
    /\ typed' = IF ~tracking THEN typed
                ELSE IF is_whitespace(key)
                THEN [a |-> IF typed.w = <<>> THEN typed.a ELSE typed.b,
                      w |-> <<key>>, b |-> <<>>]
                ELSE IF typed.w = <<>> THEN [typed EXCEPT !.a = Append(@, key)]
                ELSE [typed EXCEPT !.b = Append(@, key)]
    /\ UNCHANGED tracking

\* engine.clear()
Clear ==
    /\ ~panicked
    /\ Install(clear(Self))
    /\ last' = Call("clear", None, input_method)
    /\ fresh' = [ws |-> clear(fresh.ws), since_ws |-> FALSE]
    /\ typed' = NoTyped
    /\ UNCHANGED tracking

\* engine.set_input_method(method)
SetInputMethod(method) ==
    /\ ~panicked
    /\ Install(set_input_method(Self, method))
    /\ last' = Call("set_input_method", None, method)
    /\ fresh' = [fresh EXCEPT !.ws = set_input_method(@, method)]
    /\ UNCHANGED <<tracking, typed>>

(***************************************************************************)
(* Spec: every call sequence over a small keyboard, syllables of at most   *)
(* MaxSyllable keys.                                                       *)
(***************************************************************************)
MaxSyllable == 3

\* a w s A 1, the control character U+0001 and d-stroke (U+0111)
Keys == {Ch["a"], Ch["w"], Ch["s"], Ch["A"], Ch["1"], 1, Ch["dd"]}

\* space and the ideographic space U+3000
WhitespaceKeys == {Ch[" "], 12288}

Next ==
    \/ \E key \in Keys \cup WhitespaceKeys :
           (is_whitespace(key) \/ Len(raw_buffer) < MaxSyllable) /\ Feed(key)
    \/ Clear
    \/ \E method \in InputMethod : SetInputMethod(method)

Spec == Init /\ [][Next]_vars

(***************************************************************************)
(* SpecLong: long syllables.  The first HeadFree keys and the keys from    *)
(* position TailStart on are free over LongKeys, the keys in between are   *)
(* the filler k; a key is fed while the raw buffer is shorter than         *)
(* MaxRawBytes, so the raw buffer is taken to its capacity and beyond.     *)
(* The method is chosen between syllables.                                 *)
(***************************************************************************)
HeadFree == 1

TailStart == 30

MaxRawBytes == 34

LongKeys == {Ch["a"], Ch["w"], Ch["s"], Ch["dd"]}

LongFiller == Ch["k"]

LongAllowed(key) ==
    LET n == Len(raw_buffer)
    IN  IF is_whitespace(key) THEN TRUE
        ELSE IF n < HeadFree THEN key \in LongKeys
        ELSE IF n < TailStart THEN key = LongFiller
        ELSE key \in LongKeys /\ str_len(raw_buffer) < MaxRawBytes

NextLong ==
    \/ \E key \in LongKeys \cup {LongFiller, Ch[" "]} : LongAllowed(key) /\ Feed(key)
    \/ Clear
    \/ \E method \in InputMethod : raw_buffer = <<>> /\ SetInputMethod(method)

SpecLong == Init /\ [][NextLong]_vars

(***************************************************************************)
(* Properties of the dispatcher, checked under Spec.                       *)
(***************************************************************************)
\* A render pass on an engine that has no output and no history
Render(raw, m, h) ==
    render_str([new(h) EXCEPT !.raw_buffer = raw, !.mode = m]).out_buffer

LastFeedKey == last.op = "feed" /\ ~is_whitespace(last.key)

LastFeedWhitespace == last.op = "feed" /\ is_whitespace(last.key)

HasToned(s) == \E i \in 1..Len(s) : s[i] \in Toned

\* C1: after every feed of a non-whitespace key the output buffer is the
\* render of the raw buffer under the current mode, a function of the raw
\* buffer and the mode alone: the previous output, earlier flushed syllables
\* and earlier clear() / set_input_method() calls do not show in it.
C1_OutputIsRender == LastFeedKey => out_buffer = Render(raw_buffer, mode, heapless)

\* C1 witness: a key fed after an earlier syllable was flushed, rendered with
\* a tone mark.
C1_Witness ==
    /\ LastFeedKey /\ fresh.since_ws
    /\ Len(raw_buffer) >= 2 /\ HasToned(out_buffer)

\* C2: feed(k) with k whitespace empties the raw buffer and leaves the output
\* buffer equal to the rendering of the pre-call raw buffer followed by
\* exactly k (just k when the raw buffer was empty).
C2_WhitespaceFlush ==
    [][\A k \in WhitespaceKeys :
          (last'.op = "feed" /\ last'.key = k) =>
              /\ raw_buffer' = <<>>
              /\ out_buffer' = Render(raw_buffer, mode, heapless) \o <<k>>]_vars

\* C2 witness: a whitespace has flushed a syllable rendered with a tone mark.
C2_Witness ==
    /\ LastFeedWhitespace /\ raw_buffer = <<>>
    /\ Len(out_buffer) = 2 /\ out_buffer[1] \in Toned /\ out_buffer[2] = last.key

\* C3: after a whitespace feed the non-whitespace feeds that follow leave the
\* engine with the output (and raw buffer) of a newly constructed engine set
\* to the same method and fed the same keys.
C3_FlushStartsFresh ==
    (fresh.since_ws /\ LastFeedKey) =>
        /\ out_buffer = fresh.ws.out_buffer
        /\ raw_buffer = fresh.ws.raw_buffer

\* C3 witness: the second key of a syllable typed after a whitespace.
C3_Witness ==
    /\ fresh.since_ws /\ LastFeedKey
    /\ Len(raw_buffer) = 2 /\ out_buffer # raw_buffer

\* C4: clear() empties both buffers and keeps the method, which leaves the
\* engine equal, field by field, to a newly constructed engine set to that
\* method: every later call therefore returns what that engine would.
C4_ClearIsFresh ==
    [][last'.op = "clear" =>
          /\ raw_buffer' = <<>> /\ out_buffer' = <<>>
          /\ input_method' = input_method
          /\ Self' = set_input_method(new(heapless), input_method)]_vars

\* C4 witness: clear() has acted on an engine set to VNI.
C4_Witness ==
    /\ last.op = "clear" /\ input_method = "Vni"
    /\ raw_buffer = <<>> /\ out_buffer = <<>>

\* C10: set_input_method(m) leaves the raw buffer and the output buffer as
\* they were; afterwards input_method() is m and the mode descriptor is the
\* one for m.
C10_ModeSwapFrame ==
    [][\A m \in InputMethod :
          (last'.op = "set_input_method" /\ last'.method = m) =>
              /\ raw_buffer' = raw_buffer /\ out_buffer' = out_buffer
              /\ input_method' = m /\ mode' = mode_for(m)]_vars

\* C10 witness: a Telex rendering with a tone mark still in the output buffer
\* after the swap to VNI, under which the same raw buffer renders otherwise.
C10_Witness ==
    /\ last.op = "set_input_method" /\ last.method = "Vni" /\ mode = "VNI_MODE"
    /\ HasToned(out_buffer)
    /\ out_buffer # Render(raw_buffer, mode, heapless)

\* C7 (as claimed): every byte of the raw buffer is an ASCII byte that is
\* neither an uppercase letter nor whitespace.
C7_RawIsLowercaseAscii ==
    \A i \in 1..Len(as_bytes(raw_buffer)) :
        LET b == as_bytes(raw_buffer)[i]
        IN  b < 128 /\ b \notin 65..90 /\ ~is_whitespace(b)

(***************************************************************************)
(* Properties of long syllables, checked under SpecLong.                   *)
(***************************************************************************)
\* C6 (as claimed): the raw buffer never holds more than 32 bytes.
C6_RawAtMost32 == str_len(raw_buffer) <= RawCapacity

\* C8: no render pass panics: no scratch index leaves 0..31 and the working
\* length is never decremented below zero, whatever is fed.
C8_FeedIsTotal == ~panicked

\* C8 witness: a render pass has completed on a raw buffer filled to its
\* capacity, with a byte moved by the bubbling splice.
C8_Witness ==
    /\ ~panicked /\ LastFeedKey
    /\ str_len(raw_buffer) >= RawCapacity
    /\ Len(out_buffer) < Len(raw_buffer)

(***************************************************************************)
(* SpecScenario: the scenario table, each row fed key by key to a newly    *)
(* constructed engine set to the row's method.                             *)
(***************************************************************************)
Scenario ==
    << [method |-> "Telex", input |-> Str(<<"a", "a">>), output |-> <<226>>],
       [method |-> "Telex", input |-> Str(<<"a", "a", "s">>), output |-> <<7845>>],
       [method |-> "Telex", input |-> Str(<<"h", "u", "o", "w", "s">>),
        output |-> <<Ch["h"], 432, 7899>>],
       [method |-> "Telex", input |-> Str(<<"h", "o", "a", "f">>),
        output |-> <<Ch["h"], Ch["o"], 224>>],
       [method |-> "Telex", input |-> Str(<<"h", "o", "a", "n", "s">>),
        output |-> <<Ch["h"], Ch["o"], 225, Ch["n"]>>],
       [method |-> "Telex", input |-> Str(<<"q", "u", "a", "s">>),
        output |-> <<Ch["q"], Ch["u"], 225>>],
       [method |-> "Telex", input |-> Str(<<"q", "u", "i", "r">>),
        output |-> <<Ch["q"], Ch["u"], 7881>>],
       [method |-> "Telex", input |-> Str(<<"t", "u", "i", "s">>),
        output |-> <<Ch["t"], 250, Ch["i"]>>],
       [method |-> "Telex", input |-> Str(<<"k", "h", "u", "y", "a", "s">>),
        output |-> <<Ch["k"], Ch["h"], Ch["u"], 253, Ch["a"]>>],
       [method |-> "Telex", input |-> Str(<<"c", "l", "e", "a", "r">>),
        output |-> Str(<<"c", "l", "e", "a", "r">>)],
       [method |-> "Telex", input |-> Str(<<"n", "g", "h", "e", "e", "s">>),
        output |-> <<Ch["n"], Ch["g"], Ch["h"], 7871>>],
       [method |-> "Telex", input |-> Str(<<"a", "s", "z">>), output |-> Str(<<"a">>)],
       [method |-> "Telex", input |-> Str(<<"a", "s", "s">>), output |-> Str(<<"a", "s">>)],
       [method |-> "Telex", input |-> Str(<<"d", "d", "d">>), output |-> Str(<<"d">>)],
       [method |-> "Vni", input |-> Str(<<"a", "6">>), output |-> <<226>>],
       [method |-> "Vni", input |-> Str(<<"o", "7", "1">>), output |-> <<7899>>] >>

\* The next key of row r, once typed.a is a proper prefix of its input
RowContinues(r, key) ==
    LET n == Len(typed.a)
    IN  /\ input_method = Scenario[r].method
        /\ typed.w = <<>>
        /\ n < Len(Scenario[r].input)
        /\ SubSeq(Scenario[r].input, 1, n) = typed.a
        /\ key = Scenario[r].input[n + 1]

\* The keys the scenario inputs are written with
ScenarioKeys == UNION {{Scenario[r].input[i] : i \in 1..Len(Scenario[r].input)} :
                       r \in DOMAIN Scenario}

NextScenario ==
    \/ \E method \in InputMethod : typed = NoTyped /\ SetInputMethod(method)
    \/ \E key \in ScenarioKeys :
           (\E r \in DOMAIN Scenario : RowContinues(r, key)) /\ Feed(key)

SpecScenario == InitWith(TRUE) /\ [][NextScenario]_vars

\* C5: each row of the scenario table, fed key by key to a new engine in the
\* row's method, leaves the row's output in the output buffer.
C5_ScenarioTable ==
    \A r \in DOMAIN Scenario :
        (input_method = Scenario[r].method /\ typed.a = Scenario[r].input)
            => out_buffer = Scenario[r].output

\* C5 witness: the row khuyas has been fed and rendered.
C5_Witness ==
    /\ typed.a = Str(<<"k", "h", "u", "y", "a", "s">>)
    /\ out_buffer = <<Ch["k"], Ch["h"], Ch["u"], 253, Ch["a"]>>

(***************************************************************************)
(* SpecDelim: a new engine (set to either method) is fed a syllable a, one *)
(* whitespace w and a syllable b, each syllable of at most                 *)
(* MaxDelimSyllable keys.                                                  *)
(***************************************************************************)
MaxDelimSyllable == 2

DelimKeys == {Ch["a"], Ch["s"], Ch["w"], Ch["1"]}

NextDelim ==
    \/ \E method \in InputMethod : typed = NoTyped /\ SetInputMethod(method)
    \/ \E key \in DelimKeys \cup WhitespaceKeys :
           /\ IF is_whitespace(key) THEN typed.w = <<>>
              ELSE Len(IF typed.w = <<>> THEN typed.a ELSE typed.b) < MaxDelimSyllable
           /\ Feed(key)

SpecDelim == InitWith(TRUE) /\ [][NextDelim]_vars

\* The rendering of a whitespace-free key sequence: what a new engine set to
\* method returns after being fed it
RenderingOf(keys, method, h) ==
    type_seq(set_input_method(new(h), method), keys).out_buffer

\* C9 (as claimed): after a, w, b the output buffer is the rendering of a,
\* then w, then the rendering of b.
C9_Original ==
    typed.w # <<>> =>
        out_buffer = RenderingOf(typed.a, input_method, heapless) \o typed.w
                         \o RenderingOf(typed.b, input_method, heapless)

\* C9 (amended): after a and w the output buffer is the rendering of a
\* followed by w; once a non-empty b has been fed after w, the output buffer
\* is the rendering of b alone.
C9_WhitespaceDelimits ==
    typed.w # <<>> =>
        out_buffer = IF typed.b = <<>>
                     THEN RenderingOf(typed.a, input_method, heapless) \o typed.w
                     ELSE RenderingOf(typed.b, input_method, heapless)

\* C9 witness: two-key syllables on both sides of the whitespace, the second
\* rendered with a tone mark.
C9_Witness ==
    /\ typed.w # <<>> /\ Len(typed.a) = 2 /\ Len(typed.b) = 2
    /\ HasToned(out_buffer)

(***************************************************************************)
(* SpecTone: syllables made of one vowel followed by at most MaxTones tone *)
(* keys of the current method, with whitespace and clear() between them.   *)
(* The method is chosen between syllables.                                 *)
(***************************************************************************)
MaxTones == 3

\* a e i o u y
Vowels == {Ch["a"], Ch["e"], Ch["i"], Ch["o"], Ch["u"], Ch["y"]}

\* (attr & IS_TONE_KEY) != 0
is_tone_key(m, b) == (classify(m, b) \div IS_TONE_KEY) % 2 = 1

\* The ASCII keys a mode classifies as tone keys
ToneKeysOf(m) == {b \in 0..127 : is_tone_key(m, b)}

ToneAllowed(key) ==
    IF is_whitespace(key) THEN TRUE
    ELSE IF raw_buffer = <<>> THEN key \in Vowels
    ELSE is_tone_key(mode, key) /\ Len(raw_buffer) <= MaxTones

NextTone ==
    \/ \E key \in Vowels \cup ToneKeysOf("TELEX_MODE") \cup ToneKeysOf("VNI_MODE")
                     \cup {Ch[" "]} :
           ToneAllowed(key) /\ Feed(key)
    \/ Clear
    \/ \E method \in InputMethod : raw_buffer = <<>> /\ SetInputMethod(method)

SpecTone == Init /\ [][NextTone]_vars

\* The vowel v carrying tone tone_id (v itself for tone id 0)
Carrying(v, tone_id) == IF tone_id = 0 THEN v ELSE VOWEL_TONE[v][tone_id]

\* Some key of s equals the key right before it
HasDoubleTap(s) == \E k \in 2..Len(s) : s[k] = s[k - 1]

\* An r comes right after an f
HasFR(s) == \E k \in 2..Len(s) : s[k] = Ch["r"] /\ s[k - 1] = Ch["f"]

TonePassOf(raw, m) == TonePass(m, RenderBytes(raw), TonePassInit, 0, Len(raw))

\* The characters of s without their tone marks
Untoned(s) == [i \in 1..Len(s) |-> BaseOf(s[i], VOWEL_TONE)]

MaxWord == 3

MaxRepeat == 34

WordKeys == Str(<<"a", "e", "o", "u", "d", "w", "k", "z">>)

ForeignWords ==
    {Str(<<"c", "l", "e", "a", "r">>), Str(<<"f", "l", "a", "n">>),
     Str(<<"b", "l", "o", "b">>), Str(<<"p", "r", "o">>),
     Str(<<"f", "r", "e", "e">>)}

\* A key outside ASCII, typed as the first key of a word
NonAsciiKeys == {Ch["dd"]}

\* Words with the u-o-w cluster, after h and after q
UowWords == {Str(<<"h", "u", "o", "w", "s">>), Str(<<"q", "u", "o", "w">>)}

\* A vowel-less word with the stroke modifier and a tone key
StrokeWords == {Str(<<"d", "d", "k", "s">>)}

\* A run of a with a cancelled tone between its second and third copy
CollapseWords == {Str(<<"a", "a", "s", "s", "a">>)}

\* A word in which a occurs four times, d three times and o twice
BubbleWords == {Str(<<"a", "d", "o", "a", "d", "o", "a", "d", "a">>)}

IsPrefix(s, t) == Len(s) <= Len(t) /\ SubSeq(t, 1, Len(s)) = s

Range(s) == {s[i] : i \in 1..Len(s)}

WordAllowed(key) ==
    \/ is_whitespace(key)
    \/ /\ key \in Range(WordKeys)
       /\ Range(raw_buffer) \subseteq Range(WordKeys)
       /\ Len(raw_buffer) < MaxWord
    \/ /\ key \in ToggleBytes
       /\ Range(raw_buffer) \subseteq {key}
       /\ Len(raw_buffer) < MaxRepeat
    \/ \E word \in ForeignWords \cup UowWords \cup BubbleWords \cup StrokeWords
                  \cup CollapseWords :
           IsPrefix(Append(raw_buffer, key), word)
    \/ key \in NonAsciiKeys /\ raw_buffer = <<>>
    \/ /\ key = Ch["w"]
       /\ \E c \in ToggleBytes, n \in 1..MaxRepeat :
              raw_buffer \in {[i \in 1..n |-> c], Append([i \in 1..n |-> c], Ch["w"])}

NextWord ==
    \/ \E key \in Range(WordKeys) \cup UNION {Range(word) : word \in ForeignWords \cup UowWords \cup StrokeWords
                                                \cup CollapseWords}
                     \cup NonAsciiKeys \cup {Ch[" "]} :
           WordAllowed(key) /\ Feed(key)
    \/ Clear
    \/ \E method \in InputMethod : raw_buffer = <<>> /\ SetInputMethod(method)

SpecWord == Init /\ [][NextWord]_vars

\* No key of s is a tone key of mode m
NoToneKey(s, m) == \A i \in 1..Len(s) : ~is_tone_key(m, s[i])

\* render_str returns the raw buffer: the vowel-less fallback or a rejection
\* by the validation
ReturnsRaw(p) ==
    \/ vowel_less_fallback(p.tp, p.rs)
    \/ is_invalid_vietnamese_chars(p.rs.char_buf, p.rs.vowel_mask)

RawFallback(raw, m) == ReturnsRaw(Passes(m, RenderBytes(raw)))

Front(s) == SubSeq(s, 1, Len(s) - 1)

\* C13 (as claimed): under Telex, a key sequence without tone keys followed
\* by z renders as the sequence alone.
C13_Original ==
    (/\ mode = "TELEX_MODE" /\ Len(raw_buffer) >= 2
     /\ raw_buffer[Len(raw_buffer)] = Ch["z"]
     /\ NoToneKey(Front(raw_buffer), mode)) =>
        out_buffer = Render(Front(raw_buffer), mode, heapless)

\* C13 (amended): under Telex, a key sequence without tone keys followed by z
\* renders as the sequence alone, unless the rendering with z is the raw
\* buffer (no vowel to act on, or the syllable is rejected).
C13_NoToneIdempotence ==
    (/\ mode = "TELEX_MODE" /\ Len(raw_buffer) >= 2
     /\ raw_buffer[Len(raw_buffer)] = Ch["z"]
     /\ NoToneKey(Front(raw_buffer), mode)
     /\ ~RawFallback(raw_buffer, mode)) =>
        out_buffer = Render(Front(raw_buffer), mode, heapless)

\* C13 witness: a w z renders as a-breve, like a w.
C13_Witness ==
    /\ mode = "TELEX_MODE" /\ raw_buffer = Str(<<"a", "w", "z">>)
    /\ out_buffer = <<259>>

\* s is made of lowercase ASCII letters
IsLowerAscii(s) == \A i \in 1..Len(s) : s[i] \in Ch["a"]..Ch["z"]

\* Some toggling letter is typed twice in a row
HasAdjacentDouble(s) ==
    \E i \in 2..Len(s) : s[i] = s[i - 1] /\ s[i] \in ToggleBytes

\* Some toggling letter is typed twice, in a row or not
HasRepeat(s) ==
    \E i, j \in 1..Len(s) : i < j /\ s[i] = s[j] /\ s[i] \in ToggleBytes

\* C14 (as claimed): under Telex, lowercase letters without a tone key,
\* without w and without an adjacent doubled a, e, o or d are echoed verbatim.
C14_Original ==
    (/\ mode = "TELEX_MODE" /\ raw_buffer # <<>>
     /\ IsLowerAscii(raw_buffer) /\ NoToneKey(raw_buffer, mode)
     /\ Ch["w"] \notin Range(raw_buffer)
     /\ ~HasAdjacentDouble(raw_buffer)) =>
        out_buffer = raw_buffer

\* C14 (amended): under Telex, lowercase letters without a tone key, without
\* w and in which none of a, e, o, d occurs twice (in a row or apart) are
\* echoed verbatim.
C14_Passthrough ==
    (/\ mode = "TELEX_MODE" /\ raw_buffer # <<>>
     /\ IsLowerAscii(raw_buffer) /\ NoToneKey(raw_buffer, mode)
     /\ Ch["w"] \notin Range(raw_buffer)
     /\ ~HasRepeat(raw_buffer)) =>
        out_buffer = raw_buffer

\* C14 witness: d u o is rendered (not a fallback) and echoed as typed.
C14_Witness ==
    /\ mode = "TELEX_MODE" /\ raw_buffer = Str(<<"d", "u", "o">>)
    /\ ~RawFallback(raw_buffer, mode)
    /\ out_buffer = raw_buffer

\* The validation is reached and rejects the resolved characters
Rejects(p) ==
    /\ ~vowel_less_fallback(p.tp, p.rs)
    /\ is_invalid_vietnamese_chars(p.rs.char_buf, p.rs.vowel_mask)

ValidationRejects(raw, m) == Rejects(Passes(m, RenderBytes(raw)))

TelexDigraph ==
    {<<Ch["a"], Ch["a"], Ch["aa"]>>, <<Ch["a"], Ch["w"], Ch["aw"]>>,
     <<Ch["e"], Ch["e"], Ch["ee"]>>, <<Ch["o"], Ch["o"], Ch["oo"]>>,
     <<Ch["o"], Ch["w"], Ch["ow"]>>, <<Ch["u"], Ch["w"], Ch["uw"]>>,
     <<Ch["d"], Ch["d"], Ch["dd"]>>}

StartsWithDigraph(buf) ==
    Len(buf) >= 2 /\ \E d \in TelexDigraph : d[1] = buf[1] /\ d[2] = buf[2]

DigraphChar(buf) == (CHOOSE d \in TelexDigraph : d[1] = buf[1] /\ d[2] = buf[2])[3]

RECURSIVE PlainResolution(_)
\* Left to right: a digraph gives one character, a w alone gives u-horn, any
\* other byte gives itself
PlainResolution(buf) ==
    IF buf = <<>> THEN <<>>
    ELSE IF StartsWithDigraph(buf)
    THEN <<DigraphChar(buf)>> \o PlainResolution(SubSeq(buf, 3, Len(buf)))
    ELSE IF buf[1] = Ch["w"] THEN <<Ch["uw"]>> \o PlainResolution(Tail(buf))
    ELSE <<buf[1]>> \o PlainResolution(Tail(buf))

RECURSIVE RuleResolution(_, _)
\* The same, with the literal-w sentinel giving w and a u right before o w
\* (and not after q) giving u-horn; prev is the byte before buf
RuleResolution(buf, prev) ==
    IF buf = <<>> THEN <<>>
    ELSE IF buf[1] = W_LITERAL THEN <<Ch["w"]>> \o RuleResolution(Tail(buf), buf[1])
    ELSE IF StartsWithDigraph(buf)
    THEN <<DigraphChar(buf)>> \o RuleResolution(SubSeq(buf, 3, Len(buf)), buf[2])
    ELSE IF buf[1] = Ch["w"] THEN <<Ch["uw"]>> \o RuleResolution(Tail(buf), buf[1])
    ELSE IF /\ buf[1] = Ch["u"] /\ Len(buf) >= 3
            /\ buf[2] = Ch["o"] /\ buf[3] = Ch["w"]
            /\ prev \notin {Ch["q"], Ch["Q"]}
    THEN <<Ch["uw"]>> \o RuleResolution(Tail(buf), buf[1])
    ELSE <<buf[1]>> \o RuleResolution(Tail(buf), buf[1])

ResolvedPlainly(p) == p.rs.char_buf = PlainResolution(p.bb.toggled)

ResolvedByRule(p) == p.rs.char_buf = RuleResolution(p.bb.toggled, None)

\* C16 (as claimed): under Telex the characters resolved from the post-bubble
\* buffer are: one character for each digraph aa aw ee oo ow uw dd, u-horn
\* for a w outside a digraph, and every other byte as itself.
C16_Original ==
    (mode = "TELEX_MODE" /\ raw_buffer # <<>>) =>
        ResolvedPlainly(Passes(mode, RenderBytes(raw_buffer)))

\* C16 (amended): the same, except that the literal-w sentinel left by a
\* doubled w gives w, and a u right before o w and not after q gives u-horn.
C16_TelexDigraphs ==
    (mode = "TELEX_MODE" /\ raw_buffer # <<>>) =>
        ResolvedByRule(Passes(mode, RenderBytes(raw_buffer)))

\* C16 witness: h u o w resolves to h, u-horn, o-horn.
C16_Witness ==
    /\ mode = "TELEX_MODE" /\ raw_buffer = Str(<<"h", "u", "o", "w">>)
    /\ out_buffer = <<Ch["h"], Ch["uw"], Ch["ow"]>>

(***************************************************************************)
(* SpecVni: under VNI, a base letter, then a modifier digit or a tone      *)
(* digit, then tone digits, at most MaxVniKeys keys, with whitespace and   *)
(* clear() between syllables.                                              *)
(***************************************************************************)
MaxVniKeys == 4

VniBases == {Ch["a"], Ch["e"], Ch["o"], Ch["u"], Ch["d"]}

ModifierDigits == Ch["6"]..Ch["9"]

ToneDigits == Ch["0"]..Ch["5"]

VniAllowed(key) ==
    \/ is_whitespace(key)
    \/ /\ mode = "VNI_MODE"
       /\ IF raw_buffer = <<>> THEN key \in VniBases
          ELSE /\ Len(raw_buffer) < MaxVniKeys
               /\ key \in ToneDigits \/ (Len(raw_buffer) = 1 /\ key \in ModifierDigits)

NextVni ==
    \/ \E key \in VniBases \cup ModifierDigits \cup ToneDigits \cup {Ch[" "]} :
           VniAllowed(key) /\ Feed(key)
    \/ Clear
    \/ \E method \in InputMethod : raw_buffer = <<>> /\ SetInputMethod(method)

SpecVni == Init /\ [][NextVni]_vars

\* Base letter, modifier digit, modified letter
VniPair ==
    {<<Ch["a"], Ch["6"], 226>>, <<Ch["a"], Ch["8"], 259>>, <<Ch["e"], Ch["6"], 234>>,
     <<Ch["o"], Ch["6"], 244>>, <<Ch["o"], Ch["7"], 417>>, <<Ch["u"], Ch["7"], 432>>,
     <<Ch["d"], Ch["9"], 273>>}

\* The modified vowel with the acute tone; the grave, hook, tilde and dot
\* forms follow it two code points apart
AcuteForm == (226 :> 7845) @@ (259 :> 7855) @@ (234 :> 7871) @@ (244 :> 7889)
             @@ (417 :> 7899) @@ (432 :> 7913)

\* C17: under VNI, a base letter and its modifier digit render as the modified
\* letter; a tone digit 1..5 after them gives the acute, grave, hook, tilde or
\* dot form of the modified vowel; a 0 after that gives the modified vowel
\* again; d 9 followed by a tone digit stays d-stroke.
C17_VniDigits ==
    mode = "VNI_MODE" =>
        \A d \in VniPair :
            (Len(raw_buffer) >= 2 /\ raw_buffer[1] = d[1] /\ raw_buffer[2] = d[2]) =>
                /\ Len(raw_buffer) = 2 => out_buffer = <<d[3]>>
                /\ (Len(raw_buffer) = 3 /\ raw_buffer[3] = Ch["0"]) =>
                       out_buffer = <<d[3]>>
                /\ (/\ Len(raw_buffer) = 3 /\ d[1] # Ch["d"]
                    /\ raw_buffer[3] \in Ch["1"]..Ch["5"]) =>
                       out_buffer = <<AcuteForm[d[3]] + 2 * (raw_buffer[3] - Ch["1"])>>
                /\ (/\ Len(raw_buffer) = 4 /\ raw_buffer[3] \in Ch["1"]..Ch["5"]
                    /\ raw_buffer[4] = Ch["0"]) =>
                       out_buffer = <<d[3]>>
                /\ (/\ Len(raw_buffer) = 3 /\ d[1] = Ch["d"]
                    /\ raw_buffer[3] \in ToneDigits) =>
                       out_buffer = <<d[3]>>

\* C17 witness: u 7 5 0 renders as u-horn; the dot tone was removed by 0.
C17_Witness ==
    /\ mode = "VNI_MODE"
    /\ raw_buffer = Str(<<"u", "7", "5", "0">>)
    /\ out_buffer = <<432>>

\* The modified letter of a toggling letter
Toggled(c) ==
    CASE c = Ch["a"] -> 226 [] c = Ch["e"] -> 234 [] c = Ch["o"] -> 244
      [] c = Ch["d"] -> 273

\* The keys of the raw buffer that render_str reads
Rendered32(raw) == IF Len(raw) < ScratchLen THEN Len(raw) ELSE ScratchLen

\* C18 (as claimed): under Telex, n copies of a, e, o or d render as the plain
\* letter when n is odd and as the modified letter when n is even.
C18_Original ==
    (/\ mode = "TELEX_MODE" /\ raw_buffer # <<>>
     /\ raw_buffer[1] \in ToggleBytes
     /\ Range(raw_buffer) = {raw_buffer[1]}) =>
        out_buffer = IF Len(raw_buffer) % 2 = 1 THEN <<raw_buffer[1]>>
                     ELSE <<Toggled(raw_buffer[1])>>

\* C18 (amended): under Telex, n copies of a, e, o or d render as the plain
\* letter when n is odd and as the modified letter when n is even, for n up
\* to 32; more copies render as 32 copies do.
C18_TripleCollapse ==
    (/\ mode = "TELEX_MODE" /\ raw_buffer # <<>>
     /\ raw_buffer[1] \in ToggleBytes
     /\ Range(raw_buffer) = {raw_buffer[1]}) =>
        out_buffer = IF Rendered32(raw_buffer) % 2 = 1 THEN <<raw_buffer[1]>>
                     ELSE <<Toggled(raw_buffer[1])>>

\* C18 witness: five d render as d.
C18_Witness ==
    /\ mode = "TELEX_MODE"
    /\ raw_buffer = Str(<<"d", "d", "d", "d", "d">>)
    /\ out_buffer = <<Ch["d"]>>

\* A character the mode gives no role: not ASCII, or an ASCII byte without a
\* classification other than w
IsOpaque(m, c) == ~is_ascii(c) \/ (classify(m, c) = 0 /\ c # Ch["w"])

\* C19: when the rendering is not a fallback, every typed character that the
\* mode gives no role is in the output with the code point that was typed.
C19_PassesAsItself ==
    (LastFeedKey /\ ~panicked /\ ~RawFallback(raw_buffer, mode)) =>
        \A i \in 1..Len(raw_buffer) :
            IsOpaque(mode, raw_buffer[i]) => raw_buffer[i] \in Range(out_buffer)

RECURSIVE HeaplessRaw(_, _)
\* The raw buffer of the fixed-capacity build after the keys are pushed in
\* order (the first half, then the second half); every push to a full buffer
\* fails
HeaplessRaw(raw, keys) ==
    IF Len(keys) = 0 \/ is_full(TRUE, RawCapacity, raw) THEN raw
    ELSE IF Len(keys) = 1 THEN push(TRUE, RawCapacity, raw, keys[1])
    ELSE HeaplessRaw(HeaplessRaw(raw, SubSeq(keys, 1, Len(keys) \div 2)),
                     SubSeq(keys, Len(keys) \div 2 + 1, Len(keys)))

\* The fixed-capacity engine holding raw agrees with this engine
AgreesWith(raw) ==
    /\ raw_buffer = raw
    /\ out_buffer = Render(raw, mode, TRUE)

\* C20: the heap-backed build keeps every key fed since the last flush in its
\* raw buffer; the fixed-capacity build fed the same keys holds the same raw
\* buffer and returns the same output.
C20_BuildsAgree ==
    (~heapless /\ LastFeedKey /\ ~panicked) =>
        \E other \in {HeaplessRaw(<<>>, raw_buffer)} : AgreesWith(other)

(***************************************************************************)
(* SpecPlace: Telex syllables made of an optional onset key (or d d), at   *)
(* most MaxNucleus vowel keys, an optional coda key and an optional tone   *)
(* key, typed after new() or clear(); a whitespace ends the syllable.      *)
(***************************************************************************)
MaxNucleus == 3

OnsetKeys == {Ch["h"], Ch["q"], Ch["g"], Ch["d"]}

NucleusKeys == {Ch["a"], Ch["e"], Ch["i"], Ch["o"], Ch["u"], Ch["y"], Ch["w"]}

CodaKeys == {Ch["n"]}

PlaceToneKey == Ch["s"]

\* The number of vowel keys typed
NucleusLen(raw) == Cardinality({i \in 1..Len(raw) : raw[i] \in NucleusKeys})

PlaceAllowed(key) ==
    IF is_whitespace(key) THEN Len(raw_buffer) <= 1
    ELSE /\ mode = "TELEX_MODE"
         /\ raw_buffer # <<>> \/ out_buffer = <<>>
         /\ PlaceToneKey \notin Range(raw_buffer)
         /\ \/ key \in OnsetKeys /\ raw_buffer = <<>>
            \/ key = Ch["d"] /\ raw_buffer = <<Ch["d"]>>
            \/ /\ key \in NucleusKeys
               /\ Range(raw_buffer) \cap CodaKeys = {}
               /\ NucleusLen(raw_buffer) < MaxNucleus
            \/ /\ key \in CodaKeys
               /\ Range(raw_buffer) \cap CodaKeys = {}
               /\ NucleusLen(raw_buffer) >= 1
            \/ key = PlaceToneKey /\ raw_buffer # <<>>

NextPlace ==
    \/ \E key \in OnsetKeys \cup NucleusKeys \cup CodaKeys \cup {PlaceToneKey, Ch[" "]} :
           PlaceAllowed(key) /\ Feed(key)
    \/ Clear
    \/ \E method \in InputMethod : raw_buffer = <<>> /\ SetInputMethod(method)

SpecPlace == Init /\ [][NextPlace]_vars

\* The positions (from 1) of the vowels among the first 16 characters
VowelPositions(chars) ==
    {i \in 1..Len(chars) : i <= MaskBits /\ is_vowel_unicode(chars[i])}

\* The k-th smallest element of a set of positions
Nth(S, k) == CHOOSE i \in S : Cardinality({j \in S : j < i}) = k - 1

\* chars with the character at position i carrying the tone
TonedAt(chars, i, tone_id) == [chars EXCEPT ![i] = Carrying(BaseOf(@, VOWEL_TONE), tone_id)]

\* A tone key is remembered and the rendering is not the raw buffer
TonePlaced(p) == p.tp.last_tone_char # 0 /\ ~ReturnsRaw(p)

TargetByCount(p, V, tone_id, out) ==
    TonePlaced(p) =>
        /\ Cardinality(V) = 0 => out = p.rs.char_buf
        /\ Cardinality(V) = 1 => out = TonedAt(p.rs.char_buf, Nth(V, 1), tone_id)
        /\ Cardinality(V) >= 3 => out = TonedAt(p.rs.char_buf, Nth(V, 2), tone_id)

TargetByCountOf(p, m, out) ==
    TargetByCount(p, VowelPositions(p.rs.char_buf), tone(m, p.tp.last_tone_char), out)

\* C21: when a tone key is remembered and the rendering is not a fallback,
\* the output is the resolved characters unchanged when they hold no vowel,
\* with the tone on the sole vowel when they hold one, and with the tone on
\* the second vowel when they hold three or more.
C21_ToneByVowelCount ==
    (LastFeedKey /\ ~panicked) =>
        TargetByCountOf(Passes(mode, RenderBytes(raw_buffer)), mode, out_buffer)

\* C21 witness: h u y a s renders as h u y-acute a (three vowels).
C21_Witness ==
    /\ raw_buffer = Str(<<"h", "u", "y", "a", "s">>)
    /\ out_buffer = <<Ch["h"], Ch["u"], 253, Ch["a"]>>

\* The pairs that take the tone on the first vowel when nothing follows
OpenPairs ==
    {<<Ch["i"], Ch["a"]>>, <<Ch["i"], Ch["u"]>>, <<Ch["u"], Ch["a"]>>, <<Ch["u"], Ch["e"]>>,
     <<Ch["uw"], Ch["a"]>>, <<Ch["uw"], Ch["u"]>>, <<Ch["a"], Ch["o"]>>, <<Ch["a"], Ch["e"]>>,
     <<Ch["a"], Ch["i"]>>, <<Ch["a"], Ch["u"]>>, <<Ch["a"], Ch["y"]>>, <<Ch["e"], Ch["o"]>>,
     <<Ch["e"], Ch["u"]>>, <<Ch["o"], Ch["i"]>>}

\* The tone of the pair (f, sc) lands on f; coda: a character follows sc
OnFirst(f, sc, coda) ==
    \/ f \in {Ch["u"], Ch["uw"]} /\ sc = Ch["i"]
    \/ /\ f \in {Ch["ow"], Ch["oo"], Ch["ee"], Ch["aa"], Ch["aw"]}
       /\ sc \in {Ch["a"], Ch["e"], Ch["i"], Ch["o"], Ch["u"], Ch["y"]}
    \/ <<f, sc>> \in OpenPairs /\ ~coda

\* The rendering starts with q u or g i and that u or i is the first vowel
QuGiPrefix(chars, V) ==
    /\ Len(chars) >= 2 /\ Nth(V, 1) = 2
    /\ <<chars[1], chars[2]>> \in {<<Ch["q"], Ch["u"]>>, <<Ch["g"], Ch["i"]>>}

PairByRule(chars, V, tone_id, out) ==
    (Cardinality(V) = 2 /\ ~QuGiPrefix(chars, V)) =>
        out = TonedAt(chars,
                      IF OnFirst(chars[Nth(V, 1)], chars[Nth(V, 2)], Nth(V, 2) < Len(chars))
                      THEN Nth(V, 1) ELSE Nth(V, 2),
                      tone_id)

PairByRuleOf(p, m, out) ==
    TonePlaced(p) =>
        PairByRule(p.rs.char_buf, VowelPositions(p.rs.char_buf),
                   tone(m, p.tp.last_tone_char), out)

\* C22: with exactly two vowels rendered and no qu / gi exception, the tone
\* is on the first vowel iff the pair is u i or u-horn i, or a modified first
\* vowel with a plain second one, or an open pair that nothing follows;
\* otherwise it is on the second vowel.
C22_TwoVowelPlacement ==
    (LastFeedKey /\ ~panicked) =>
        PairByRuleOf(Passes(mode, RenderBytes(raw_buffer)), mode, out_buffer)

\* C22 witness: h u a n s renders h u a-acute n (open pair with a coda).
C22_Witness ==
    /\ raw_buffer = Str(<<"h", "u", "a", "n", "s">>)
    /\ out_buffer = <<Ch["h"], Ch["u"], 225, Ch["n"]>>

QuGiByRule(chars, V, tone_id, out) ==
    (Cardinality(V) = 2 /\ QuGiPrefix(chars, V)) =>
        out = TonedAt(chars, Nth(V, 2), tone_id)

QuGiByRuleOf(p, m, out) ==
    TonePlaced(p) =>
        QuGiByRule(p.rs.char_buf, VowelPositions(p.rs.char_buf),
                   tone(m, p.tp.last_tone_char), out)

\* C23: when the rendering starts with q u or g i, that u or i is the first
\* vowel and exactly two vowels are rendered, the tone is on the second vowel.
C23_QuGiException ==
    (LastFeedKey /\ ~panicked) =>
        QuGiByRuleOf(Passes(mode, RenderBytes(raw_buffer)), mode, out_buffer)

\* C23 witness: q u a s renders q u a-acute.
C23_Witness ==
    /\ raw_buffer = Str(<<"q", "u", "a", "s">>)
    /\ out_buffer = <<Ch["q"], Ch["u"], 225>>

\* Every u o w of the post-bubble buffer gives u-horn o-horn, or u o-horn
\* after q, at the place the bytes before it resolve to
UowRendered(toggled, chars) ==
    \A i \in 1..(Len(toggled) - 2) :
        (toggled[i] = Ch["u"] /\ toggled[i + 1] = Ch["o"] /\ toggled[i + 2] = Ch["w"]) =>
            \E k \in {Len(PlainResolution(SubSeq(toggled, 1, i - 1)))} :
                /\ k + 2 <= Len(chars)
                /\ chars[k + 1] = IF i > 1 /\ toggled[i - 1] = Ch["q"]
                                  THEN Ch["u"] ELSE Ch["uw"]
                /\ chars[k + 2] = Ch["ow"]

UowRenderedIn(p) == UowRendered(p.bb.toggled, p.rs.char_buf)

\* C24: under Telex, u followed by o and w in the post-bubble buffer resolves
\* to u-horn and o-horn, and to plain u and o-horn when q is right before u.
C24_UowCluster ==
    (mode = "TELEX_MODE" /\ raw_buffer # <<>>) =>
        UowRenderedIn(Passes(mode, RenderBytes(raw_buffer)))

\* C24 witness: q u o w renders q u o-horn, the u staying plain.
C24_Witness ==
    /\ mode = "TELEX_MODE" /\ raw_buffer = Str(<<"q", "u", "o", "w">>)
    /\ out_buffer = <<Ch["q"], Ch["u"], Ch["ow"]>>

\* The buffer produced by the a/e/o/d splice step
SpliceOf(m, tp) == ModBubble(m, tp.toggled, ModBubbleInit, Len(tp.toggled)).buf

\* The positions of c in buf
PositionsOf(buf, c) == {i \in 1..Len(buf) : buf[i] = c}

\* buf with the byte at position k moved right after position a
MovedAfter(buf, k, a) ==
    SubSeq(buf, 1, a) \o <<buf[k]>> \o SubSeq(buf, a + 1, k - 1)
        \o SubSeq(buf, k + 1, Len(buf))

\* buf with its w at position k moved right after the last a, o, u or d
\* before it, if there is one
WAfterAnchor(buf, k, anchors) ==
    IF anchors = {} THEN buf
    ELSE MovedAfter(buf, k, CHOOSE a \in anchors : \A b \in anchors : b <= a)

WBubbled(buf, k, final) ==
    final = WAfterAnchor(buf, k, {i \in 1..(k - 1) :
                                     buf[i] \in {Ch["a"], Ch["o"], Ch["u"], Ch["d"]}})

SingleWBubbled(p, m) ==
    Cardinality(PositionsOf(p.tp.toggled, Ch["w"])) = 1 =>
        \E buf \in {SpliceOf(m, p.tp)} :
            /\ Cardinality(PositionsOf(buf, Ch["w"])) = 1
            /\ WBubbled(buf, CHOOSE k \in PositionsOf(buf, Ch["w"]) : TRUE, p.bb.toggled)

\* C25: under Telex, when the working buffer holds exactly one w, the
\* bubbling pass moves it right after the last a, o, u or d before it in the
\* spliced buffer and keeps the order of the other bytes; without such a
\* byte before it, the buffer is unchanged.
C25_SingleWBubbling ==
    (mode = "TELEX_MODE" /\ raw_buffer # <<>>) =>
        SingleWBubbled(Passes(mode, RenderBytes(raw_buffer)), mode)

\* C25 witness: in a k w the w is moved next to the a, giving a-breve k.
C25_Witness ==
    /\ mode = "TELEX_MODE" /\ raw_buffer = Str(<<"a", "k", "w">>)
    /\ out_buffer = <<Ch["aw"], Ch["k"]>>

\* The raw buffer holds exactly two w, typed one after the other
TwoAdjacentW(raw) ==
    /\ Cardinality(PositionsOf(raw, Ch["w"])) = 2
    /\ \E i \in PositionsOf(raw, Ch["w"]) : i + 1 \in PositionsOf(raw, Ch["w"])

\* One literal w, and no a-breve, o-horn or u-horn with or without a tone
OneLiteralW(out) ==
    /\ Cardinality(PositionsOf(out, Ch["w"])) = 1
    /\ \A i \in 1..Len(out) :
           BaseOf(out[i], VOWEL_TONE) \notin {Ch["aw"], Ch["ow"], Ch["uw"]}

\* C26 (as claimed): under Telex, two w typed one after the other leave
\* exactly one literal w in the output, not a u-horn and not combined with a
\* neighbouring a, o or u.
C26_Original ==
    (mode = "TELEX_MODE" /\ LastFeedKey /\ TwoAdjacentW(raw_buffer)) =>
        OneLiteralW(out_buffer)

\* C26 (amended): the same, when both w are among the first 32 bytes of the
\* syllable and the rendering is not the raw-buffer fallback.
C26_DoubleWLiteral ==
    (/\ mode = "TELEX_MODE" /\ LastFeedKey /\ TwoAdjacentW(raw_buffer)
     /\ PositionsOf(raw_buffer, Ch["w"]) \subseteq 1..RawCapacity
     /\ ~RawFallback(raw_buffer, mode)) =>
        OneLiteralW(out_buffer)

\* C26 witness: a w w renders a followed by a literal w.
C26_Witness ==
    /\ mode = "TELEX_MODE" /\ raw_buffer = Str(<<"a", "w", "w">>)
    /\ out_buffer = Str(<<"a", "w">>)

\* buf with c put right after its last occurrence, the bytes behind it
\* shifted right by one
AfterLastOf(buf, c, at) ==
    SubSeq(buf, 1, at) \o <<c>> \o SubSeq(buf, at + 1, Len(buf))

\* The step of the splice on a, e, o or d: an even-numbered occurrence goes
\* right after the odd-numbered one before it, an odd-numbered one stays at
\* the end, where it was typed
SplicedByParity(t, st, nx, c) ==
    IF Cardinality({j \in 1..st.wi : t[j] = c}) % 2 = 1
    THEN /\ PositionsOf(st.buf, c) # {}
         /\ nx.buf = AfterLastOf(st.buf, c,
                CHOOSE a \in PositionsOf(st.buf, c) : \A b \in PositionsOf(st.buf, c) : b <= a)
    ELSE nx.buf = Append(st.buf, c)

\* Every tracked position points at its own symbol
TrackedOwn(st) ==
    \A s \in ToggleBytes :
        st.last_pos[s] # NoPos =>
            /\ st.last_pos[s] < Len(st.buf)
            /\ st.buf[st.last_pos[s] + 1] = s

SpliceStepOk(t, st, nx) ==
    /\ TrackedOwn(nx)
    /\ t[st.wi + 1] \in ToggleBytes => SplicedByParity(t, st, nx, t[st.wi + 1])

FreeStyle(m, t) ==
    \A n \in 0..Len(t) :
        \E st \in {IF n = 0 THEN ModBubbleInit ELSE ModBubble(m, t, ModBubbleInit, n)} :
            st.wi < Len(t) =>
                \E nx \in {ModBubbleStep(m, t, st)} : SpliceStepOk(t, st, nx)

\* Some a, e, o or d occurs more than once in the working buffer
HasRepeatedToggle(t) ==
    \E c \in ToggleBytes : Cardinality(PositionsOf(t, c)) >= 2

FreeStyleIn(m, p) ==
    /\ FreeStyle(m, p.tp.toggled)
    /\ HasRepeatedToggle(p.tp.toggled) => p.tp.need_mod_bubble
    /\ (p.tp.need_mod_bubble /\ ~p.tp.has_w) => p.bb.toggled = SpliceOf(m, p.tp)

\* C27: for each of a, e, o, d, the 2nd, 4th, ... occurrence in the working
\* buffer is spliced right after the preceding odd-numbered occurrence, the
\* bytes in between move right by one, odd-numbered occurrences stay where
\* they were typed, and the tracked positions of the other symbols still
\* point at their own symbol after each splice.
C27_FreeStyleBubbling ==
    raw_buffer # <<>> => FreeStyleIn(mode, Passes(mode, RenderBytes(raw_buffer)))

\* C27 witness: in a d o a d o a d a the fourth a joins the third, behind
\* the three pairs.
C27_Witness ==
    /\ raw_buffer = Str(<<"a", "d", "o", "a", "d", "o", "a", "d", "a">>)
    /\ SpliceOf(mode, Passes(mode, RenderBytes(raw_buffer)).tp)
           = Str(<<"a", "a", "d", "d", "o", "o", "a", "a", "d">>)

\* C28: under VNI the bubbling pass moves no byte: the buffer handed to the
\* resolver is the buffer the tone pass left, in typed order, also when a, e,
\* o or d occurs more than once in the syllable.
C28_VniKeepsTypedOrder ==
    (mode = "VNI_MODE" /\ raw_buffer # <<>>) =>
        \E p \in {Passes(mode, RenderBytes(raw_buffer))} : p.bb.toggled = p.tp.toggled

\* The rendering has no vowel and more than one character, a tone key was
\* stripped, and a rendered character is not ASCII
VowelLessModified(p) ==
    /\ p.rs.vowel_mask = {} /\ Len(p.rs.char_buf) > 1
    /\ p.tp.last_tone_char # 0 /\ ~p.tp.tone_cancelled
    /\ has_modified(p.rs.char_buf)

\* C29: a vowel-less rendering longer than one character, with a tone key
\* stripped and a non-ASCII character in it, is kept (the tone key stripped)
\* instead of falling back to the raw buffer.
C29_VowelLessException ==
    (LastFeedKey /\ raw_buffer # <<>>) =>
        \E p \in {Passes(mode, RenderBytes(raw_buffer))} :
            VowelLessModified(p) => out_buffer = p.rs.char_buf

(***************************************************************************)
(* SpecOnset: syllables with an onset of up to MaxOnset consonants, the    *)
(* first two drawn from the letters of INVALID_PAIR_TABLE and n, h, then a *)
(* nucleus of up to MaxOnsetNucleus vowels and a closing s, in both modes  *)
(* (under VNI every letter is plain).                                      *)
(***************************************************************************)
MaxOnset == 4

MaxOnsetNucleus == 2

OnsetLetters ==
    {Ch["c"], Ch["f"], Ch["b"], Ch["g"], Ch["s"], Ch["p"], Ch["d"], Ch["k"],
     Ch["l"], Ch["r"], Ch["t"], Ch["q"], Ch["n"], Ch["h"]}

\* The third and fourth consonants of an onset
LateOnsetLetters == {Ch["h"], Ch["l"]}

OnsetNucleus == {Ch["o"], Ch["u"], Ch["e"]}

OnsetNucleusLen(raw) == Cardinality({i \in 1..Len(raw) : raw[i] \in OnsetNucleus})

\* The key typed last, 0 before the first key
LastTyped(raw) == IF raw = <<>> THEN 0 ELSE raw[Len(raw)]

OnsetAllowed(key) ==
    IF is_whitespace(key) THEN Len(raw_buffer) <= 1
    ELSE /\ raw_buffer # <<>> \/ out_buffer = <<>>
         /\ \/ /\ key \in OnsetLetters
               /\ Len(raw_buffer) < 2
               /\ OnsetNucleusLen(raw_buffer) = 0
            \/ /\ key \in LateOnsetLetters
               /\ Len(raw_buffer) \in 2..(MaxOnset - 1)
               /\ OnsetNucleusLen(raw_buffer) = 0
               /\ LastTyped(raw_buffer) \in {Ch["g"], Ch["l"], Ch["h"]}
            \/ /\ key \in OnsetNucleus
               /\ OnsetNucleusLen(raw_buffer) < MaxOnsetNucleus
               /\ OnsetNucleusLen(raw_buffer) = 0 \/ LastTyped(raw_buffer) \in OnsetNucleus
            \/ /\ key = Ch["s"]
               /\ LastTyped(raw_buffer) \in OnsetNucleus

NextOnset ==
    \/ \E key \in OnsetLetters \cup OnsetNucleus \cup {Ch[" "]} :
           OnsetAllowed(key) /\ Feed(key)
    \/ Clear
    \/ \E method \in InputMethod : raw_buffer = <<>> /\ SetInputMethod(method)

SpecOnset == Init /\ [][NextOnset]_vars

\* The leading pairs the validation refuses before a first vowel at index 2
RefusedPairs ==
    {Str(<<"c", "l">>), Str(<<"f", "l">>), Str(<<"b", "l">>), Str(<<"g", "l">>),
     Str(<<"s", "l">>), Str(<<"p", "l">>), Str(<<"b", "r">>), Str(<<"p", "r">>),
     Str(<<"d", "r">>), Str(<<"f", "r">>), Str(<<"g", "r">>), Str(<<"k", "r">>),
     Str(<<"s", "t">>), Str(<<"s", "p">>), Str(<<"s", "k">>), Str(<<"p", "t">>),
     Str(<<"p", "c">>), Str(<<"p", "g">>), Str(<<"p", "q">>), Str(<<"p", "s">>),
     Str(<<"p", "k">>), Str(<<"p", "d">>), Str(<<"p", "f">>), Str(<<"p", "b">>)}

\* The onset rule, first being the index (from 0) of the first vowel
RefusedOnset(chars, first) ==
    \/ \E i \in 1..(Len(chars) - 1) : chars[i] = Ch["o"] /\ chars[i + 1] = Ch["u"]
    \/ first >= 4
    \/ first = 3 /\ SubSeq(chars, 1, 3) # Str(<<"n", "g", "h">>)
    \/ first = 2 /\ SubSeq(chars, 1, 2) \in RefusedPairs

OnsetValidated(p, V, out) ==
    V # {} =>
        /\ is_invalid_vietnamese_chars(p.rs.char_buf, p.rs.vowel_mask)
               <=> RefusedOnset(p.rs.char_buf, Nth(V, 1) - 1)
        /\ ReturnsRaw(p) <=> RefusedOnset(p.rs.char_buf, Nth(V, 1) - 1)

OnsetValidatedOf(p, out) == OnsetValidated(p, VowelPositions(p.rs.char_buf), out)

\* C30: a rendering with at least one vowel is rejected iff it holds plain o
\* right before plain u, or its first vowel is at index 4 or more, or at
\* index 3 after anything but n g h, or at index 2 after one of the 24
\* refused pairs; every other rendering is accepted.
C30_OnsetValidation ==
    raw_buffer # <<>> =>
        OnsetValidatedOf(Passes(mode, RenderBytes(raw_buffer)), out_buffer)

\* C30 witness: n g h e s is accepted and renders with the acute on e.
C30_Witness ==
    /\ mode = "TELEX_MODE" /\ raw_buffer = Str(<<"n", "g", "h", "e", "s">>)
    /\ out_buffer = <<Ch["n"], Ch["g"], Ch["h"], 233>>

\* The tone pass over the first n bytes
TonePassPrefix(m, bytes, n) == TonePass(m, bytes, TonePassInit, 0, n)

\* The first byte b was emitted and no tone is remembered
EmittedAsContent(st, b) ==
    st.toggled = <<b>> /\ st.last_tone_char = 0 /\ ~st.tone_cancelled

\* The second byte b was remembered as a tone, not taken for a double tap
RememberedAsFirstTone(st, b) ==
    st.toggled = <<b>> /\ st.last_tone_char = b /\ ~st.tone_cancelled

LeadingToneKeyIsContent(m, bytes, b, out) ==
    /\ EmittedAsContent(TonePassPrefix(m, bytes, 1), b)
    /\ \E tp \in {TonePassPrefix(m, bytes, Len(bytes))} :
           tp.toggled # <<>> /\ tp.toggled[1] = b
    /\ (Len(bytes) >= 2 /\ bytes[2] = b) =>
           RememberedAsFirstTone(TonePassPrefix(m, bytes, 2), b)
    /\ (Len(bytes) = 1 /\ LastFeedKey) => out = <<b>>

\* C31: a tone key at raw index 0 is content: it is emitted as a literal
\* character and never remembered as a tone, a later identical tone key is a
\* first tone key and no double-tap cancel, and a single tone key fed to a
\* fresh engine is the output.
C31_LeadingToneKey ==
    (raw_buffer # <<>> /\ is_tone_key(mode, RenderBytes(raw_buffer)[1])) =>
        \E bytes \in {RenderBytes(raw_buffer)} :
            LeadingToneKeyIsContent(mode, bytes, bytes[1], out_buffer)

\* C31 witness: s a s under Telex renders s and a with the acute tone.
C31_Witness ==
    /\ mode = "TELEX_MODE" /\ LastFeedKey
    /\ raw_buffer = Str(<<"s", "a", "s">>)
    /\ out_buffer = <<Ch["s"], 225>>

(***************************************************************************)
(* SpecCluster: every syllable of at most MaxCluster keys over the vowel   *)
(* a, the consonants of Rule 2 and the Telex tone keys s, f, r, x, j.      *)
(***************************************************************************)
MaxCluster == 3

ClusterKeys ==
    {Ch["t"], Ch["p"], Ch["f"], Ch["c"], Ch["b"], Ch["d"], Ch["g"], Ch["k"],
     Ch["a"], Ch["r"], Ch["s"], Ch["x"], Ch["j"]}

ClusterAllowed(key) ==
    IF is_whitespace(key) THEN Len(raw_buffer) <= 1
    ELSE /\ raw_buffer # <<>> \/ out_buffer = <<>>
         /\ Len(raw_buffer) < MaxCluster

NextCluster ==
    \/ \E key \in ClusterKeys \cup {Ch[" "]} : ClusterAllowed(key) /\ Feed(key)
    \/ Clear
    \/ \E method \in InputMethod : raw_buffer = <<>> /\ SetInputMethod(method)

SpecCluster == Init /\ [][NextCluster]_vars

\* The byte b was emitted as a letter, the remembered tone left alone
EmittedAsLetter(before, after, b) ==
    /\ after.toggled = Append(before.toggled, b)
    /\ after.last_tone_char = before.last_tone_char
    /\ after.tone_cancelled = before.tone_cancelled

\* The byte b was handled as a tone key: a double tap cancels the tone and
\* leaves the key as a letter, after a cancel the key is a letter, and
\* otherwise the key is remembered and not emitted
HandledAsToneKey(before, after, b) ==
    IF before.last_tone_char = b
    THEN /\ after.toggled = Append(before.toggled, b)
         /\ after.last_tone_char = 0 /\ after.tone_cancelled
    ELSE IF before.tone_cancelled
    THEN EmittedAsLetter(before, after, b)
    ELSE /\ after.toggled = before.toggled
         /\ after.last_tone_char = b /\ ~after.tone_cancelled

RAfterCluster(bytes, idx, before, after) ==
    IF bytes[idx] \in {Ch["t"], Ch["p"], Ch["f"], Ch["c"], Ch["b"], Ch["d"], Ch["g"], Ch["k"]}
    THEN EmittedAsLetter(before, after, Ch["r"])
    ELSE HandledAsToneKey(before, after, Ch["r"])

\* C32: under Telex an r at raw index 1 or more right after one of t, p, f,
\* c, b, d, g, k is emitted as a letter and not remembered as the hook tone,
\* whatever precedes that consonant; every other r at index 1 or more is
\* handled as a tone key.
C32_RAfterCluster ==
    mode = "TELEX_MODE" =>
        \E bytes \in {RenderBytes(raw_buffer)} :
            \A idx \in 1..(Len(bytes) - 1) :
                bytes[idx + 1] = Ch["r"] =>
                    RAfterCluster(bytes, idx, TonePassPrefix(mode, bytes, idx),
                                  TonePassPrefix(mode, bytes, idx + 1))

\* C32 witness: a t r keeps its r, no tone is set.
C32_Witness ==
    /\ mode = "TELEX_MODE" /\ LastFeedKey
    /\ raw_buffer = Str(<<"a", "t", "r">>)
    /\ out_buffer = Str(<<"a", "t", "r">>)
    /\ TonePassOf(raw_buffer, mode).last_tone_char = 0

\* The Telex tone keys that set a tone
TelexToneKeys == {Ch["s"], Ch["f"], Ch["r"], Ch["x"], Ch["j"]}

\* R is shorter than 32 bytes, holds no tone key, renders without fallback
\* and has a vowel among its first 16 rendered characters
TakesTone(R, m) ==
    /\ str_len(R) < RawCapacity
    /\ \A i \in 1..Len(R) : ~is_tone_key(m, R[i])
    /\ \E p \in {Passes(m, RenderBytes(R))} :
           ~ReturnsRaw(p) /\ VowelPositions(p.rs.char_buf) # {}

\* out is base with exactly one vowel replaced by its form carrying the tone
OneVowelToned(base, out, tone_id) ==
    \E i \in 1..Len(base) :
        /\ is_vowel_unicode(base[i])
        /\ out = [base EXCEPT ![i] = Carrying(@, tone_id)]
        /\ out # base

\* C33 (as claimed): under Telex, a tone key s, f, r, x or j fed after a raw
\* buffer R that is shorter than 32 bytes, holds no tone key, renders without
\* fallback and has a vowel among its first 16 rendered characters yields the
\* rendering of R with exactly one vowel carrying the tone of the key, and no
\* additional character.
C33_Original ==
    (/\ mode = "TELEX_MODE" /\ LastFeedKey /\ Len(raw_buffer) >= 2
     /\ raw_buffer[Len(raw_buffer)] \in TelexToneKeys
     /\ TakesTone(Front(raw_buffer), mode)) =>
        OneVowelToned(Render(Front(raw_buffer), mode, heapless), out_buffer,
                      tone(mode, raw_buffer[Len(raw_buffer)]))

\* C33 (amended): the same, except for the key r fed right after one of t, p,
\* c, b, d, g, k, which is kept as a letter.
C33_ToneKeyTonesOneVowel ==
    (/\ mode = "TELEX_MODE" /\ LastFeedKey /\ Len(raw_buffer) >= 2
     /\ raw_buffer[Len(raw_buffer)] \in TelexToneKeys
     /\ ~(/\ raw_buffer[Len(raw_buffer)] = Ch["r"]
          /\ raw_buffer[Len(raw_buffer) - 1] \in
                 {Ch["t"], Ch["p"], Ch["c"], Ch["b"], Ch["d"], Ch["g"], Ch["k"]})
     /\ TakesTone(Front(raw_buffer), mode)) =>
        OneVowelToned(Render(Front(raw_buffer), mode, heapless), out_buffer,
                      tone(mode, raw_buffer[Len(raw_buffer)]))

\* C33 witness: t a x renders t and a with the tilde.
C33_Witness ==
    /\ mode = "TELEX_MODE" /\ LastFeedKey
    /\ raw_buffer = Str(<<"t", "a", "x">>)
    /\ out_buffer = <<Ch["t"], 227>>

\* The step from before to after removed a byte: the triple-collapse fired
CollapseFired(before, after) == Len(after.toggled) < Len(before.toggled)

\* The byte removed is the copy of b emitted last, all else stays in place
RemovedCopyOf(before, after, b) ==
    /\ before.toggled # <<>>
    /\ before.toggled[Len(before.toggled)] = b
    /\ after.toggled = Front(before.toggled)

CollapseRemovesCopy(bytes, idx, before, after) ==
    CollapseFired(before, after) => RemovedCopyOf(before, after, bytes[idx + 1])

\* C34: when the triple-collapse fires on the third copy of a, e, o or d, the
\* byte removed from the working buffer is the previously emitted copy of
\* that letter; every other emitted byte, a tone key emitted as a letter
\* after a cancellation included, is kept in its place.
C34_CollapseRemovesCopy ==
    raw_buffer # <<>> =>
        \E bytes \in {RenderBytes(raw_buffer)} :
            \A idx \in 0..(Len(bytes) - 1) :
                CollapseRemovesCopy(bytes, idx, TonePassPrefix(mode, bytes, idx),
                                    TonePassPrefix(mode, bytes, idx + 1))

\* The positions at which two renderings of the same length differ
DifferAt(base, out) == {i \in 1..Len(base) : out[i] # base[i]}

\* out is base with a tone mark on exactly one position, which holds a vowel
OnePositionToned(base, out) ==
    /\ Len(out) = Len(base)
    /\ Cardinality(DifferAt(base, out)) = 1
    /\ \A i \in DifferAt(base, out) : is_vowel_unicode(base[i]) /\ out[i] \in Toned

TonePlacedOnce(p, m, out) ==
    ~ReturnsRaw(p) =>
        /\ Cardinality({i \in 1..Len(out) : out[i] \in Toned}) <= 1
        /\ (/\ p.tp.last_tone_char # 0
            /\ tone(m, p.tp.last_tone_char) \in 1..5
            /\ \E i \in 1..Len(p.rs.char_buf) : is_vowel_unicode(p.rs.char_buf[i])) =>
               OnePositionToned(p.rs.char_buf, out)

\* C35: for an ASCII key sequence, an output that is not a fallback holds at
\* most one tone-marked vowel, and when a tone key with id 1..5 is remembered
\* and a vowel is rendered, it differs from the rendering without the tone at
\* exactly one position, which holds a vowel, and has as many characters.
C35_OneTonePosition ==
    (/\ LastFeedKey /\ raw_buffer # <<>>
     /\ \A i \in 1..Len(raw_buffer) : is_ascii(raw_buffer[i])) =>
        TonePlacedOnce(Passes(mode, RenderBytes(raw_buffer)), mode, out_buffer)

\* C35 witness: h u y a s has three vowels and one of them, y, takes the tone.
C35_Witness ==
    /\ LastFeedKey /\ raw_buffer = Str(<<"h", "u", "y", "a", "s">>)
    /\ DifferAt(Str(<<"h", "u", "y", "a">>), out_buffer) = {3}

\* The number of w right before position i
WRunBefore(t, i) ==
    i - 1 - (CHOOSE j \in 0..(i - 1) :
                 /\ j = 0 \/ t[j] # Ch["w"]
                 /\ \A k \in (j + 1)..(i - 1) : t[k] = Ch["w"])

\* The adjacent w w pairs of t, taken from the left: the positions of their
\* second w
WPairs(t) == {i \in PositionsOf(t, Ch["w"]) : WRunBefore(t, i) % 2 = 1}

\* How many times c is expected after the bubbling of t
CountAfter(t, c, pairs) ==
    IF c = Ch["w"] THEN Cardinality(PositionsOf(t, c)) - 2 * pairs
    ELSE IF c = W_LITERAL THEN Cardinality(PositionsOf(t, c)) + pairs
    ELSE Cardinality(PositionsOf(t, c))

PermutedWith(t, out, pairs) ==
    /\ \A c \in Range(t) \cup Range(out) \cup {W_LITERAL} :
           Cardinality(PositionsOf(out, c)) = CountAfter(t, c, pairs)
    /\ Len(out) = Len(t) - pairs
    /\ Len(out) <= Len(t)

BubblingPermutes(p, m) ==
    PermutedWith(p.tp.toggled, p.bb.toggled,
                 IF m = "TELEX_MODE" THEN Cardinality(WPairs(p.tp.toggled)) ELSE 0)

\* C36: the buffer the bubbling pass hands on is a permutation of the buffer
\* the tone pass left, except that under Telex each adjacent w w pair is
\* replaced by one sentinel byte; it is never longer.
C36_BubblingPermutes ==
    raw_buffer # <<>> => BubblingPermutes(Passes(mode, RenderBytes(raw_buffer)), mode)

\* C36 witness: of w w w the first two become the sentinel, the third stays.
C36_Witness ==
    /\ mode = "TELEX_MODE"
    /\ raw_buffer = Str(<<"w", "w", "w">>)
    /\ Passes(mode, RenderBytes(raw_buffer)).bb.toggled = <<W_LITERAL, Ch["w"]>>

\* The uppercase and the lowercase form of an ASCII letter, any other key
\* itself
AsciiUpper(c) == IF c \in 97..122 THEN c - 32 ELSE c

AsciiLower(c) == IF c \in 65..90 THEN c + 32 ELSE c

\* after is what feed makes of e for the key in either case, and its output
\* holds no uppercase ASCII letter
CaseBlind(e, key, after) ==
    /\ after = feed(e, AsciiUpper(key))
    /\ after = feed(e, AsciiLower(key))
    /\ \A i \in 1..Len(after.out_buffer) : after.out_buffer[i] \notin 65..90

\* C37: feed does not tell the cases of an ASCII letter apart: the key in its
\* uppercase form leaves the same raw buffer and the same output after every
\* key, and no output, fallback included, holds an uppercase ASCII letter.
C37_FeedIsCaseBlind ==
    [][last'.op = "feed" => CaseBlind(Self, last'.key, Self')]_vars

\* C37 witness: a then A render a with the circumflex.
C37_Witness ==
    /\ last.op = "feed" /\ last.key = Ch["A"]
    /\ raw_buffer = Str(<<"a", "a">>) /\ out_buffer = <<Ch["aa"]>>

\* The raw buffer after the step is the one before it, or that with the
\* lowercased key at its end
AppendedOrKept(raw, key, after) == after \in {raw, Append(raw, AsciiLower(key))}

\* A render pass leaves the raw buffer of e as it is
RenderKeepsRaw(e) == render_str(e).raw_buffer = e.raw_buffer

RawFrame(op, key, raw, after) ==
    /\ (op = "feed" /\ ~is_whitespace(key)) => AppendedOrKept(raw, key, after)
    /\ ~IsPrefix(raw, after) => (op = "clear" \/ (op = "feed" /\ is_whitespace(key)))
    /\ op \notin {"feed", "clear"} => after = raw

\* C38: the raw buffer changes only in the dispatcher: a feed of a key that
\* is no whitespace appends the lowercased key at its end or leaves it alone,
\* a render pass leaves it byte for byte as it was, and only a whitespace
\* feed or clear() removes bytes from it.
C38_RawBufferFrame ==
    [][/\ RawFrame(last'.op, last'.key, raw_buffer, raw_buffer')
       /\ RenderKeepsRaw(Self) /\ RenderKeepsRaw(Self')]_vars

\* C38 witness: the fixed-capacity build with a full raw buffer after a feed
\* that left it alone.
C38_Witness ==
    /\ heapless /\ LastFeedKey
    /\ str_len(raw_buffer) = RawCapacity
    /\ raw_buffer[Len(raw_buffer)] # last.key

====
